---- MODULE Spec2Model ----
(***************************************************************************)
(* Model of extract_worklogs.py (JiraWorklogExtractor): the relationship   *)
(* collector, the expiring file cache and the parallel worklog extractor.  *)
(*                                                                         *)
(* Issue keys are Python strings; they are modelled as sequences of code   *)
(* points ("ZYN-1" is <<90, 89, 78, 45, 49>>) so that str.startswith and   *)
(* sorted() are computed as Python computes them.                          *)
(***************************************************************************)
EXTENDS Integers, Sequences, FiniteSets, Bags, TLC

VARIABLES
    remote,             \* the remote dataset the REST calls answer from
    status,             \* collect_all_related_issues: "running" | "done" | "raised"
    phase,              \* "seed" | "epic" | "link" | "subtask" | "return"
    all_issue_keys,     \* the accumulating key set (multiplicity per key)
    epic_keys,          \* epics found among the direct matches
    epics_left,         \* epics of epic_keys not yet expanded
    initial_keys,       \* snapshot taken at the start of the link phase
    links_left,         \* keys of initial_keys not yet queried for links
    initial_keys_for_subtasks, \* snapshot taken at the start of the subtask phase
    subtasks_left,      \* keys of that snapshot not yet queried for subtasks
    result,             \* the returned list, or NoResult
    n_search,           \* number of seed searches issued
    n_children,         \* per key: number of epic-children searches issued
    n_links,            \* per key: number of link queries issued
    n_subtasks,         \* per key: number of subtask queries issued
    failed,             \* some remote call of the collector failed unrecoverably
    use_cache,          \* self.use_cache
    cache_ttl,          \* self.cache_ttl, in seconds
    now,                \* time.time(), in seconds
    files,              \* the cache directory: cache key -> [data, mtime]
    op,                 \* the last cache operation and what it returned
    jira,               \* per issue key: what the metadata and worklog calls answer
    issue_keys,         \* extract_worklogs: the keys passed in
    max_workers,        \* extract_worklogs: the size of the thread pool
    tasks,              \* one task per submitted key: its position and locals
    issue_metadata_cache, \* the dict shared by the tasks
    all_worklogs,       \* the list extract_worklogs accumulates
    collected,          \* the futures as_completed has yielded
    ex_status,          \* extract_worklogs: "idle" | "running" | "returned" | "raised"
    method,             \* session.request: the HTTP method of the call
    retries,            \* the Retry object of the call: the retries left (total)
    attempts,           \* the outcomes of the attempts of the call, in order
    call,               \* the call: "pending" | "response" | "returned" | "raised"
    cache_file,         \* one cache file shared by threads: its content on disk
    threads,            \* threads reading or writing cache_file: position and locals
    search,             \* search_issues: its arguments, locals and position
    one_worklog,        \* a worklog of a REST answer, as _extract_issue_worklogs gets it
    record,             \* the record built from one_worklog, or what became of the attempt
    export_worklogs,    \* export_to_csv: the worklogs passed in
    csvfile,            \* export_to_csv: the file written, or NoFile
    main,               \* main: its position, args.format and its locals
    main_calls,         \* the methods of the extractor main has called, in order
    output,             \* the report files in the output directory
    extractor,          \* the JiraWorklogExtractor under construction: its attributes
    construction,       \* __init__: its arguments, position and the requests made
    searched,           \* the jql of the search_issues calls made on the extractor
    key_pairs,          \* _get_cache_key: the (prefix, identifier) of two calls
    key_names,          \* _get_cache_key: what the two calls return
    entry_threads       \* two threads at one cache entry: a read and a write, step by step

collector_vars == <<remote, status, phase, all_issue_keys, epic_keys, epics_left,
                    initial_keys, links_left, initial_keys_for_subtasks,
                    subtasks_left, result, n_search, n_children, n_links,
                    n_subtasks, failed>>

cache_vars == <<use_cache, cache_ttl, now, files, op>>

extract_vars == <<jira, issue_keys, max_workers, tasks, issue_metadata_cache,
                  all_worklogs, collected, ex_status>>

retry_vars == <<method, retries, attempts, call>>

race_vars == <<cache_file, threads>>

search_vars == <<search>>

convert_vars == <<one_worklog, record>>

export_vars == <<export_worklogs, csvfile>>

main_vars == <<main, main_calls, output>>

construct_vars == <<extractor, construction, searched>>

naming_vars == <<key_pairs, key_names>>

\* what surrounds collection and extraction: construction, main, the exports,
\* and the names of cache files taken by themselves
evict_vars == <<entry_threads>>

outer_vars == <<export_vars, main_vars, construct_vars, naming_vars, evict_vars>>

vars == <<collector_vars, cache_vars, extract_vars, retry_vars, race_vars, search_vars,
          convert_vars, outer_vars>>

----------------------------------------------------------------------------
(* Bounds of the generated remote datasets *)

MaxEdges == 2          \* issue links plus subtask pairs of a generated dataset
MaxTtl == 2            \* cache_ttl is drawn from 0..MaxTtl
MaxTime == 4           \* the clock stops at MaxTime
MaxIssues == 2         \* extract_worklogs is given at most this many keys
MaxWorklogs == 2       \* an issue has at most this many worklogs
MaxThreads == 3         \* threads at work on one cache file
MaxChunks == 2          \* a pickled value is written and read in at most this many pieces
MaxWorkers == 2        \* max_workers is drawn from 1..MaxWorkers
MaxTotal == 5          \* a search matches at most this many issues
MaxPage == 3           \* max_results and the page limit of the service are at most this
MaxSeconds == 12600    \* time_spent_seconds of an exported record is at most this
MaxSearches == 2       \* search_issues is called at most this often on one extractor

----------------------------------------------------------------------------
(* Strings *)

\* PROJECT_KEY, default 'ZYN'
PROJECT_KEY == <<90, 89, 78>>

\* "<project>-<n>" for a one-digit n
MkKey(project, n) == project \o <<45, 48 + n>>

\* str.startswith
StartsWith(s, prefix) ==
    /\ Len(prefix) <= Len(s)
    /\ SubSeq(s, 1, Len(prefix)) = prefix

\* Python's str < str: code point order, a proper prefix is smaller
StrLess(a, b) ==
    \E i \in 1..(Len(a) + 1) :
        /\ i <= Len(b)
        /\ \A j \in 1..(i - 1) : a[j] = b[j]
        /\ (i = Len(a) + 1 \/ a[i] < b[i])

\* The keys of the model: ZYN-1 .. ZYN-6 of the configured project, ZYNX-1 of
\* a project whose key begins with the configured one, OT-1 of an unrelated one.
ProjKeys == { MkKey(PROJECT_KEY, n) : n \in 1..6 }
ZYNX1 == MkKey(<<90, 89, 78, 88>>, 1)
OT1 == MkKey(<<79, 84>>, 1)
AllKeys == ProjKeys \cup {ZYNX1, OT1}

\* the collector has returned no list
NoResult == [returned |-> FALSE, keys |-> << >>]

----------------------------------------------------------------------------
(* The remote dataset *)

\* A dataset: what the Jira REST API answers.
\*   seed      keys the ERP Activity search returns
\*   epics     the keys of seed whose issuetype name is 'Epic'
\*   children  per epic, the keys the "Epic Link" search returns (an epic that
\*             is no direct match has children too)
\*   links     issue links <<outward-from, outward-to>>
\*   subtasks  pairs <<parent, subtask>>
\* The spec's scenario: E = ZYN-1 (epic), S = ZYN-2, C1 = ZYN-3, C2 = ZYN-4,
\* L1 = ZYN-5, T1 = ZYN-6, L2 = OT-1.
ScE == MkKey(PROJECT_KEY, 1)
ScS == MkKey(PROJECT_KEY, 2)
ScC1 == MkKey(PROJECT_KEY, 3)
ScC2 == MkKey(PROJECT_KEY, 4)
ScL1 == MkKey(PROJECT_KEY, 5)
ScT1 == MkKey(PROJECT_KEY, 6)
ScL2 == OT1

ScenarioDataset ==
    [ seed     |-> {ScE, ScS},
      epics    |-> {ScE},
      children |-> (ScE :> {ScC1, ScC2}),
      links    |-> {<<ScS, ScL1>>, <<ScS, ScL2>>},
      subtasks |-> {<<ScC1, ScT1>>} ]

\* A dataset with epics that are no direct matches: ZYN-2 is a child of the
\* seed epic ZYN-1, ZYN-4 is linked to it and ZYN-6 is a subtask of it, and
\* each of the three has a child of its own.
NestedEpicsDataset ==
    [ seed     |-> {ScE},
      epics    |-> {ScE},
      children |-> (ScE :> {ScS}) @@ (ScS :> {ScC1}) @@ (ScC2 :> {ScL1}) @@ (ScT1 :> {ScL1}),
      links    |-> {<<ScE, ScC2>>},
      subtasks |-> {<<ScE, ScT1>>} ]

\* The generated datasets: every dataset over two keys of the project and the
\* two foreign keys, with at most MaxEdges links and subtask pairs in all.
\* Both searches carry "project = PROJECT_KEY" in their JQL, so seed and
\* children are keys of the project; an epic is no child of itself.
GenProj == {MkKey(PROJECT_KEY, 1), MkKey(PROJECT_KEY, 2)}
GenKeys == GenProj \cup {ZYNX1, OT1}
LinkCand == { e \in GenKeys \X GenKeys : e[1] # e[2] /\ (e[1] \in GenProj \/ e[2] \in GenProj) }
SubtaskCand == { e \in GenKeys \X GenKeys : e[1] # e[2] }

\* the subsets of S with at most n elements
RECURSIVE SubsetsUpTo(_, _)
SubsetsUpTo(S, n) ==
    IF n = 0 THEN { {} }
    ELSE LET smaller == SubsetsUpTo(S, n - 1)
         IN smaller \cup { p \cup {x} : p \in smaller, x \in S }

EdgeCand == { <<"link", e>> : e \in LinkCand } \cup { <<"subtask", e>> : e \in SubtaskCand }

\* the sets of links and subtask pairs a generated dataset may hold
EdgeSets == SubsetsUpTo(EdgeCand, MaxEdges)

GenDataset(s, ep, ch, es) ==
    [ seed |-> s, epics |-> ep, children |-> ch,
      links |-> { e[2] : e \in { x \in es : x[1] = "link" } },
      subtasks |-> { e[2] : e \in { x \in es : x[1] = "subtask" } } ]

\* d is the spec's scenario or one of the generated datasets
IsDataset(d) ==
    \/ d = ScenarioDataset
    \/ d = NestedEpicsDataset
    \/ \E s \in SUBSET GenProj : \E ep \in SUBSET s :
          \E ch \in { f \in [ep -> SUBSET GenProj] : \A e \in ep : e \notin f[e] } :
             \E es \in EdgeSets : d = GenDataset(s, ep, ch, es)

\* GET /rest/api/2/issue/{key}?fields=issuelinks : the issuelinks array of
\* an issue. A link shows on its source with 'outwardIssue' and on its target
\* with 'inwardIssue'.
IssueLinks(d, key) ==
    { [outwardIssue |-> e[2]] : e \in { x \in d.links : x[1] = key } }
    \cup { [inwardIssue |-> e[1]] : e \in { x \in d.links : x[2] = key } }

\* GET /rest/api/2/issue/{key}?fields=subtasks
IssueSubtasks(d, key) == { e[2] : e \in { x \in d.subtasks : x[1] = key } }

----------------------------------------------------------------------------
(* Helpers of the collector *)

\* Variant: the keys are kept in a list, so a key added twice is held twice
ListAppend(keys, k) == keys (+) SetToBag({k})

\* set.add: adding a key that is present changes nothing
SetAdd(keys, k) == IF BagIn(k, keys) THEN keys ELSE keys (+) SetToBag({k})

\* for issue in issues: all_issue_keys.add(issue['key'])
RECURSIVE AddAll(_, _)
AddAll(keys, new) ==
    IF new = {} THEN keys
    ELSE LET k == CHOOSE x \in new : TRUE
         IN AddAll(SetAdd(keys, k), new \ {k})

\* Variant: only the outward end of a link is followed
get_linked_issues_outward(d, issue_key) ==
    { l.outwardIssue : l \in { x \in IssueLinks(d, issue_key) : "outwardIssue" \in DOMAIN x } }

\* get_linked_issues: the keys at the other end of every link of the issue
get_linked_issues(d, issue_key) ==
    { l.outwardIssue : l \in { x \in IssueLinks(d, issue_key) : "outwardIssue" \in DOMAIN x } }
    \cup { l.inwardIssue : l \in { x \in IssueLinks(d, issue_key) : "inwardIssue" \in DOMAIN x } }

\* get_subtasks
get_subtasks(d, issue_key) == IssueSubtasks(d, issue_key)

\* if linked_key.startswith(self.project_key)
PassesProjectFilter(linked_key) == StartsWith(linked_key, PROJECT_KEY)

\* the inner loop of the link phase
RECURSIVE AddLinked(_, _)
AddLinked(keys, linked) ==
    IF linked = {} THEN keys
    ELSE LET k == CHOOSE x \in linked : TRUE
         IN AddLinked(IF PassesProjectFilter(k) /\ ~BagIn(k, keys) THEN SetAdd(keys, k) ELSE keys,
                      linked \ {k})

\* Variant: the subtask phase applies the project filter of the link phase
RECURSIVE AddSubtasksOfProject(_, _)
AddSubtasksOfProject(keys, subtasks) ==
    IF subtasks = {} THEN keys
    ELSE LET k == CHOOSE x \in subtasks : TRUE
         IN AddSubtasksOfProject(IF PassesProjectFilter(k) /\ ~BagIn(k, keys)
                                 THEN SetAdd(keys, k) ELSE keys,
                                 subtasks \ {k})

\* the inner loop of the subtask phase
RECURSIVE AddSubtasks(_, _)
AddSubtasks(keys, subtasks) ==
    IF subtasks = {} THEN keys
    ELSE LET k == CHOOSE x \in subtasks : TRUE
         IN AddSubtasks(IF ~BagIn(k, keys) THEN SetAdd(keys, k) ELSE keys, subtasks \ {k})

\* Variant: list(all_issue_keys) without the sort; the keys come in an order
\* of the set's own, here the descending one
RECURSIVE Unsorted(_)
Unsorted(keys) ==
    IF keys = EmptyBag THEN << >>
    ELSE LET s == BagToSet(keys)
             m == CHOOSE x \in s : \A y \in s \ {x} : StrLess(y, x)
         IN <<m>> \o Unsorted(keys (-) SetToBag({m}))

\* sorted(all_issue_keys)
RECURSIVE Sorted(_)
Sorted(keys) ==
    IF keys = EmptyBag THEN << >>
    ELSE LET s == BagToSet(keys)
             m == CHOOSE x \in s : \A y \in s \ {x} : StrLess(x, y)
         IN <<m>> \o Sorted(keys (-) SetToBag({m}))

----------------------------------------------------------------------------
(* The expiring file cache: _get_cache_key, _get_from_cache, _save_to_cache *)

\* Python values are records, so that any two of them can be compared
None == [none |-> TRUE]             \* Python's None
Corrupt == [corrupt |-> TRUE]       \* file content pickle.load cannot read
PyList(seq) == [list |-> seq]       \* a Python list

\* hashlib.md5(str(identifier).encode()).hexdigest() for the issue keys of the
\* model ('ZYN-1' .. 'ZYN-6', 'ZYNX-1', 'OT-1'): the digests md5 computes
md5_hexdigest(identifier) ==
    CASE identifier = <<90, 89, 78, 45, 49>> -> "2ce66dd62d66c0548c835ad550e780b8"
      [] identifier = <<90, 89, 78, 45, 50>> -> "c196a1e51c4285c72723e1140ff7eb28"
      [] identifier = <<90, 89, 78, 45, 51>> -> "7631138a066d4ac3c725fc91d3274318"
      [] identifier = <<90, 89, 78, 45, 52>> -> "736635ae7f4c0817d8d3830e5e095a58"
      [] identifier = <<90, 89, 78, 45, 53>> -> "544e7bd8172c4334ce5354b5e9030937"
      [] identifier = <<90, 89, 78, 45, 54>> -> "e0fa4874f0086af3c24275922ad665bc"
      [] identifier = <<90, 89, 78, 88, 45, 49>> -> "1cfe01f7e7535cfd55ec3050715d402e"
      [] identifier = <<79, 84, 45, 49>> -> "e7183d361e068acb35a7000de6db42a0"

\* Variant: the cache key leaves the identifier out
_get_cache_key_of_prefix(prefix, identifier) == prefix \o "_" \o ".pkl"

\* Variant: the cache key leaves the prefix out
_get_cache_key_of_identifier(prefix, identifier) == md5_hexdigest(identifier) \o ".pkl"

\* _get_cache_key(prefix, identifier): f"{prefix}_{hash_obj.hexdigest()}.pkl"
_get_cache_key(prefix, identifier) == prefix \o "_" \o md5_hexdigest(identifier) \o ".pkl"

\* the entries and values of the cache model
CacheKeys == { _get_cache_key("metadata", MkKey(PROJECT_KEY, 1)),
               _get_cache_key("worklogs", MkKey(PROJECT_KEY, 1)) }
CacheData == { [value |-> 1], [value |-> 2] }

\* the cache takes no part: nothing stored, no operation
NoOp == [name |-> "none"]
CacheIdle ==
    /\ use_cache = TRUE
    /\ cache_ttl = 0
    /\ now = 0
    /\ files = << >>
    /\ op = NoOp

\* cache_file.exists()
Exists(dir, cache_key) == cache_key \in DOMAIN dir

\* cache_file.unlink()
Unlink(dir, cache_key) == [ k \in (DOMAIN dir) \ {cache_key} |-> dir[k] ]

\* Variant: open(cache_file, 'xb'), a file that exists is left as it is
WriteFileIfAbsent(dir, cache_key, content, mtime) ==
    [ k \in (DOMAIN dir) \cup {cache_key} |->
        IF k \in DOMAIN dir THEN dir[k] ELSE [data |-> content, mtime |-> mtime] ]

\* open(cache_file, 'wb') and pickle.dump(data, f): the file is replaced
WriteFile(dir, cache_key, content, mtime) ==
    [ k \in (DOMAIN dir) \cup {cache_key} |->
        IF k = cache_key THEN [data |-> content, mtime |-> mtime] ELSE dir[k] ]

\* Variant: an entry expires when its age reaches the ttl
ExpiredAtTtl(file_age, ttl) == file_age >= ttl

\* if file_age > self.cache_ttl
Expired(file_age, ttl) == file_age > ttl

\* return None: the call reports a miss
Miss(dir) == [ret |-> None, dir |-> dir, unlinked |-> FALSE, raised |-> FALSE]

\* Variant: no except clause, the exception of the try block leaves the call
ReadExceptReraise(dir) == [ret |-> None, dir |-> dir, unlinked |-> FALSE, raised |-> TRUE]

\* except Exception as e: the failure is logged and the call returns None
ReadExcept(dir) == Miss(dir)

\* Variant: a hit rewrites the file it has read, which makes the entry new again
GetFromCacheTouch(enabled, ttl, dir, t, cache_key, fault) ==
    IF ~enabled THEN Miss(dir)
    ELSE IF fault = "exists"
         THEN [ret |-> None, dir |-> dir, unlinked |-> FALSE, raised |-> TRUE]
    ELSE IF ~Exists(dir, cache_key) THEN Miss(dir)
    ELSE IF fault = "vanish" THEN ReadExcept(Unlink(dir, cache_key))
    ELSE IF fault = "stat" THEN ReadExcept(dir)
    ELSE IF Expired(t - dir[cache_key].mtime, ttl)
         THEN IF fault = "unlink"
              THEN ReadExcept(dir)
              ELSE [ret |-> None, dir |-> Unlink(dir, cache_key), unlinked |-> TRUE,
                    raised |-> FALSE]
    ELSE IF fault \in {"open", "load"} \/ dir[cache_key].data = Corrupt
         THEN ReadExcept(dir)
    ELSE [ret |-> dir[cache_key].data,
          dir |-> WriteFile(dir, cache_key, dir[cache_key].data, t),
          unlinked |-> FALSE, raised |-> FALSE]

\* The outcome of _get_from_cache(cache_key) on directory dir at time t:
\* [ret, dir, unlinked, raised]. fault names what goes wrong in this call:
\* "none"; a file operation that raises OSError when it is reached ("exists",
\* "stat", "unlink", "open"); "load", pickle.load raises; "vanish", the file
\* is removed by someone else after exists() has found it, so that stat raises
\* FileNotFoundError. cache_file.exists() stands before the try block.
GetFromCache(enabled, ttl, dir, t, cache_key, fault) ==
    IF ~enabled THEN Miss(dir)
    ELSE IF fault = "exists"
         THEN [ret |-> None, dir |-> dir, unlinked |-> FALSE, raised |-> TRUE]
    ELSE IF ~Exists(dir, cache_key) THEN Miss(dir)
    ELSE IF fault = "vanish" THEN ReadExcept(Unlink(dir, cache_key))
    ELSE IF fault = "stat" THEN ReadExcept(dir)
    ELSE IF Expired(t - dir[cache_key].mtime, ttl)
         THEN IF fault = "unlink"
              THEN ReadExcept(dir)
              ELSE [ret |-> None, dir |-> Unlink(dir, cache_key), unlinked |-> TRUE,
                    raised |-> FALSE]
    ELSE IF fault \in {"open", "load"} \/ dir[cache_key].data = Corrupt
         THEN ReadExcept(dir)
    ELSE [ret |-> dir[cache_key].data, dir |-> dir, unlinked |-> FALSE, raised |-> FALSE]

\* Variant: _save_to_cache without the test of self.use_cache
SaveToCacheAlways(enabled, dir, t, cache_key, data, fault) ==
    IF fault = "open" THEN dir
    ELSE IF fault = "dump" THEN WriteFile(dir, cache_key, Corrupt, t)
    ELSE WriteFile(dir, cache_key, data, t)

\* The directory after _save_to_cache(cache_key, data) at time t. fault names
\* the file operation that raises ("none", "open", "dump"); a dump that fails
\* leaves a file pickle.load cannot read.
SaveToCache(enabled, dir, t, cache_key, data, fault) ==
    IF ~enabled THEN dir
    ELSE IF fault = "open" THEN dir
    ELSE IF fault = "dump" THEN WriteFile(dir, cache_key, Corrupt, t)
    ELSE WriteFile(dir, cache_key, data, t)

\* what can go wrong in one call of _get_from_cache, of _save_to_cache
ReadFaults == {"none", "exists", "vanish", "stat", "unlink", "open", "load"}
WriteFaults == {"none", "open", "dump"}

\* extract_worklogs takes no part
ExtractIdle ==
    /\ jira = << >>
    /\ issue_keys = << >>
    /\ max_workers = 1
    /\ tasks = << >>
    /\ issue_metadata_cache = << >>
    /\ all_worklogs = << >>
    /\ collected = {}
    /\ ex_status = "idle"

\* no remote call is under way
RetryIdle ==
    /\ method = "GET"
    /\ retries = 0
    /\ attempts = << >>
    /\ call = "idle"

\* no thread works on a shared cache file
RaceIdle ==
    /\ cache_file = [exists |-> FALSE, content |-> << >>]
    /\ threads = << >>

\* no search is under way
SearchIdle == search = [pc |-> "idle"]

\* no worklog is being converted
ConvertIdle ==
    /\ one_worklog = << >>
    /\ record = [built |-> FALSE]

\* open(filename, 'w') has not been reached
NoFile == [written |-> FALSE]

\* nothing is exported
ExportIdle ==
    /\ export_worklogs = << >>
    /\ csvfile = NoFile

\* main has not been started
MainIdle ==
    /\ main = [pc |-> "idle"]
    /\ main_calls = << >>
    /\ output = {}

\* no object of the class exists yet
NotConstructed == [constructed |-> FALSE]

\* no extractor is being constructed
ConstructIdle ==
    /\ extractor = NotConstructed
    /\ construction = [pc |-> "idle"]
    /\ searched = << >>

\* no thread reads an entry while another writes it
EvictIdle == entry_threads = << >>

\* no cache key is being computed
NamingIdle ==
    /\ key_pairs = << >>
    /\ key_names = << >>

\* no part of the program around collection and extraction is at work
OuterIdle == ExportIdle /\ MainIdle /\ ConstructIdle /\ NamingIdle /\ EvictIdle

\* the collector takes no part
CollectorIdle ==
    /\ remote = [seed |-> {}, epics |-> {}, children |-> << >>, links |-> {}, subtasks |-> {}]
    /\ status = "idle"
    /\ phase = "seed"
    /\ all_issue_keys = EmptyBag
    /\ epic_keys = {}
    /\ epics_left = {}
    /\ initial_keys = {}
    /\ links_left = {}
    /\ initial_keys_for_subtasks = {}
    /\ subtasks_left = {}
    /\ result = NoResult
    /\ n_search = 0
    /\ n_children = << >>
    /\ n_links = << >>
    /\ n_subtasks = << >>
    /\ failed = FALSE

InitCache ==
    /\ OuterIdle
    /\ CollectorIdle
    /\ ExtractIdle
    /\ RetryIdle
    /\ RaceIdle
    /\ SearchIdle
    /\ ConvertIdle
    /\ use_cache \in BOOLEAN
    /\ cache_ttl \in 0..MaxTtl
    /\ now = 0
    /\ files = << >>
    /\ op = NoOp

\* time passes
Tick ==
    /\ now < MaxTime
    /\ now' = now + 1
    /\ op' = [name |-> "tick"]
    /\ UNCHANGED <<use_cache, cache_ttl, files, collector_vars, extract_vars, retry_vars, outer_vars, race_vars, search_vars, convert_vars>>

\* a call of _get_from_cache
CacheGet ==
    \E cache_key \in CacheKeys, fault \in ReadFaults :
        LET r == GetFromCache(use_cache, cache_ttl, files, now, cache_key, fault)
        IN /\ files' = r.dir
           /\ op' = [name |-> "get", key |-> cache_key, fault |-> fault,
                     ret |-> r.ret, unlinked |-> r.unlinked, raised |-> r.raised]
           /\ UNCHANGED <<use_cache, cache_ttl, now, collector_vars, extract_vars, retry_vars, outer_vars, race_vars, search_vars, convert_vars>>

\* a call of _save_to_cache
CacheSave ==
    \E cache_key \in CacheKeys, data \in CacheData, fault \in WriteFaults :
        /\ files' = SaveToCache(use_cache, files, now, cache_key, data, fault)
        /\ op' = [name |-> "save", key |-> cache_key, fault |-> fault, data |-> data,
                  replaced |-> IF cache_key \in DOMAIN files THEN files[cache_key].data
                                                              ELSE None]
        /\ UNCHANGED <<use_cache, cache_ttl, now, collector_vars, extract_vars, retry_vars, outer_vars, race_vars, search_vars, convert_vars>>

NextCache ==
    \/ Tick
    \/ CacheGet
    \/ CacheSave

SpecCache == InitCache /\ [][NextCache]_vars


----------------------------------------------------------------------------
(* collect_all_related_issues *)

InitCollector ==
    /\ OuterIdle
    /\ CacheIdle
    /\ ExtractIdle
    /\ RetryIdle
    /\ RaceIdle
    /\ SearchIdle
    /\ ConvertIdle
    /\ IsDataset(remote)
    /\ status = "running"
    /\ phase = "seed"
    /\ all_issue_keys = EmptyBag
    /\ epic_keys = {}
    /\ epics_left = {}
    /\ initial_keys = {}
    /\ links_left = {}
    /\ initial_keys_for_subtasks = {}
    /\ subtasks_left = {}
    /\ result = NoResult
    /\ n_search = 0
    /\ n_children = [k \in AllKeys |-> 0]
    /\ n_links = [k \in AllKeys |-> 0]
    /\ n_subtasks = [k \in AllKeys |-> 0]
    /\ failed = FALSE

\* Variant: the failure is swallowed and the keys collected so far are returned
ReturnPartial ==
    /\ status' = "done"
    /\ result' = [returned |-> TRUE, keys |-> Sorted(all_issue_keys)]
    /\ UNCHANGED <<remote, phase, all_issue_keys, epic_keys, epics_left, initial_keys,
                   links_left, initial_keys_for_subtasks, subtasks_left>>

\* A remote call that fails unrecoverably raises out of the collector.
Raise ==
    /\ status' = "raised"
    /\ UNCHANGED <<remote, phase, all_issue_keys, epic_keys, epics_left, initial_keys,
                   links_left, initial_keys_for_subtasks, subtasks_left, result>>

\* Step 1 and the analysis of the direct matches
SeedSearch ==
    /\ status = "running" /\ phase = "seed"
    /\ n_search' = n_search + 1
    /\ UNCHANGED <<n_children, n_links, n_subtasks, cache_vars, extract_vars, retry_vars, outer_vars, race_vars, search_vars, convert_vars>>
    /\ \E ok \in BOOLEAN :
        /\ failed' = ~ok
        /\ IF ok
           THEN /\ all_issue_keys' = AddAll(all_issue_keys, remote.seed)
                /\ epic_keys' = remote.epics
                /\ epics_left' = remote.epics
                /\ phase' = "epic"
                /\ UNCHANGED <<remote, status, initial_keys, links_left,
                               initial_keys_for_subtasks, subtasks_left, result>>
           ELSE Raise

\* Variant: a worklist, a child that has children of its own is expanded too
EpicExpandWorklist ==
    /\ status = "running" /\ phase = "epic"
    /\ \E epic_key \in epics_left :
        /\ n_children' = [n_children EXCEPT ![epic_key] = @ + 1]
        /\ UNCHANGED <<n_search, n_links, n_subtasks, cache_vars, extract_vars, retry_vars, outer_vars, race_vars, search_vars, convert_vars>>
        /\ \E ok \in BOOLEAN :
            /\ failed' = ~ok
            /\ IF ok
               THEN /\ all_issue_keys' = AddAll(all_issue_keys, remote.children[epic_key])
                    /\ epics_left' = (epics_left \ {epic_key})
                                        \cup { c \in remote.children[epic_key] :
                                                 c \in DOMAIN remote.children /\ n_children[c] = 0 }
                    /\ UNCHANGED <<remote, status, phase, epic_keys, initial_keys, links_left,
                                   initial_keys_for_subtasks, subtasks_left, result>>
               ELSE Raise

\* One iteration of "for epic_key in epic_keys"
EpicExpand ==
    /\ status = "running" /\ phase = "epic"
    /\ \E epic_key \in epics_left :
        /\ n_children' = [n_children EXCEPT ![epic_key] = @ + 1]
        /\ UNCHANGED <<n_search, n_links, n_subtasks, cache_vars, extract_vars, retry_vars, outer_vars, race_vars, search_vars, convert_vars>>
        /\ \E ok \in BOOLEAN :
            /\ failed' = ~ok
            /\ IF ok
               THEN /\ all_issue_keys' = AddAll(all_issue_keys, remote.children[epic_key])
                    /\ epics_left' = epics_left \ {epic_key}
                    /\ UNCHANGED <<remote, status, phase, epic_keys, initial_keys, links_left,
                                   initial_keys_for_subtasks, subtasks_left, result>>
               ELSE Raise

\* Variant: the link phase starts after the first epic, not after the last
StartLinkPhaseEarly ==
    /\ status = "running" /\ phase = "epic" /\ epics_left # epic_keys
    /\ initial_keys' = BagToSet(all_issue_keys)
    /\ links_left' = BagToSet(all_issue_keys)
    /\ phase' = "link"
    /\ UNCHANGED <<remote, status, all_issue_keys, epic_keys, epics_left,
                   initial_keys_for_subtasks, subtasks_left, result,
                   n_search, n_children, n_links, n_subtasks, failed, cache_vars, extract_vars, retry_vars, outer_vars, race_vars, search_vars, convert_vars>>

\* initial_keys = list(all_issue_keys)
StartLinkPhase ==
    /\ status = "running" /\ phase = "epic" /\ epics_left = {}
    /\ initial_keys' = BagToSet(all_issue_keys)
    /\ links_left' = BagToSet(all_issue_keys)
    /\ phase' = "link"
    /\ UNCHANGED <<remote, status, all_issue_keys, epic_keys, epics_left,
                   initial_keys_for_subtasks, subtasks_left, result,
                   n_search, n_children, n_links, n_subtasks, failed, cache_vars, extract_vars, retry_vars, outer_vars, race_vars, search_vars, convert_vars>>

\* Variant: a worklist, keys found by a link query are queried for links too
LinkQueryWorklist ==
    /\ status = "running" /\ phase = "link"
    /\ \E issue_key \in links_left :
        /\ n_links' = [n_links EXCEPT ![issue_key] = @ + 1]
        /\ UNCHANGED <<n_search, n_children, n_subtasks, cache_vars, extract_vars, retry_vars, outer_vars, race_vars, search_vars, convert_vars>>
        /\ \E ok \in BOOLEAN :
            /\ failed' = ~ok
            /\ IF ok
               THEN /\ all_issue_keys' = AddLinked(all_issue_keys, get_linked_issues(remote, issue_key))
                    /\ links_left' = (links_left \ {issue_key})
                                        \cup (BagToSet(all_issue_keys') \ BagToSet(all_issue_keys))
                    /\ UNCHANGED <<remote, status, phase, epic_keys, epics_left, initial_keys,
                                   initial_keys_for_subtasks, subtasks_left, result>>
               ELSE Raise

\* Variant: a worklist without a visited check, every linked key of the project
\* is queued again (the call counter stops counting at 2)
LinkQueryRequeue ==
    /\ status = "running" /\ phase = "link"
    /\ \E issue_key \in links_left :
        /\ n_links' = [n_links EXCEPT ![issue_key] = IF @ < 2 THEN @ + 1 ELSE @]
        /\ UNCHANGED <<n_search, n_children, n_subtasks, cache_vars, extract_vars, retry_vars, outer_vars, race_vars, search_vars, convert_vars>>
        /\ \E ok \in BOOLEAN :
            /\ failed' = ~ok
            /\ IF ok
               THEN /\ all_issue_keys' = AddLinked(all_issue_keys, get_linked_issues(remote, issue_key))
                    /\ links_left' = (links_left \ {issue_key})
                                        \cup { k \in get_linked_issues(remote, issue_key) :
                                                  PassesProjectFilter(k) }
                    /\ UNCHANGED <<remote, status, phase, epic_keys, epics_left, initial_keys,
                                   initial_keys_for_subtasks, subtasks_left, result>>
               ELSE Raise

\* One iteration of "for issue_key in initial_keys"
LinkQuery ==
    /\ status = "running" /\ phase = "link"
    /\ \E issue_key \in links_left :
        /\ n_links' = [n_links EXCEPT ![issue_key] = @ + 1]
        /\ UNCHANGED <<n_search, n_children, n_subtasks, cache_vars, extract_vars, retry_vars, outer_vars, race_vars, search_vars, convert_vars>>
        /\ \E ok \in BOOLEAN :
            /\ failed' = ~ok
            /\ IF ok
               THEN /\ all_issue_keys' = AddLinked(all_issue_keys, get_linked_issues(remote, issue_key))
                    /\ links_left' = links_left \ {issue_key}
                    /\ UNCHANGED <<remote, status, phase, epic_keys, epics_left, initial_keys,
                                   initial_keys_for_subtasks, subtasks_left, result>>
               ELSE Raise

\* initial_keys_for_subtasks = list(all_issue_keys)
StartSubtaskPhase ==
    /\ status = "running" /\ phase = "link" /\ links_left = {}
    /\ initial_keys_for_subtasks' = BagToSet(all_issue_keys)
    /\ subtasks_left' = BagToSet(all_issue_keys)
    /\ phase' = "subtask"
    /\ UNCHANGED <<remote, status, all_issue_keys, epic_keys, epics_left, initial_keys,
                   links_left, result, n_search, n_children, n_links, n_subtasks, failed, cache_vars, extract_vars, retry_vars, outer_vars, race_vars, search_vars, convert_vars>>

\* One iteration of "for issue_key in initial_keys_for_subtasks"
SubtaskQuery ==
    /\ status = "running" /\ phase = "subtask"
    /\ \E issue_key \in subtasks_left :
        /\ n_subtasks' = [n_subtasks EXCEPT ![issue_key] = @ + 1]
        /\ UNCHANGED <<n_search, n_children, n_links, cache_vars, extract_vars, retry_vars, outer_vars, race_vars, search_vars, convert_vars>>
        /\ \E ok \in BOOLEAN :
            /\ failed' = ~ok
            /\ IF ok
               THEN /\ all_issue_keys' = AddSubtasks(all_issue_keys, get_subtasks(remote, issue_key))
                    /\ subtasks_left' = subtasks_left \ {issue_key}
                    /\ UNCHANGED <<remote, status, phase, epic_keys, epics_left, initial_keys,
                                   links_left, initial_keys_for_subtasks, result>>
               ELSE Raise

\* return sorted(all_issue_keys)
Return ==
    /\ status = "running" /\ phase = "subtask" /\ subtasks_left = {}
    /\ result' = [returned |-> TRUE, keys |-> Sorted(all_issue_keys)]
    /\ status' = "done"
    /\ phase' = "return"
    /\ UNCHANGED <<remote, all_issue_keys, epic_keys, epics_left, initial_keys, links_left,
                   initial_keys_for_subtasks, subtasks_left,
                   n_search, n_children, n_links, n_subtasks, failed, cache_vars, extract_vars, retry_vars, outer_vars, race_vars, search_vars, convert_vars>>

NextCollector ==
    \/ SeedSearch
    \/ EpicExpand
    \/ StartLinkPhase
    \/ LinkQuery
    \/ StartSubtaskPhase
    \/ SubtaskQuery
    \/ Return

SpecCollector == InitCollector /\ [][NextCollector]_vars

----------------------------------------------------------------------------
(* get_issue_metadata, get_worklogs, _extract_issue_worklogs, extract_worklogs *)

\* the answers of a REST call: raise_for_status raises unless the status is 200
ErrorResponse == [status_code |-> 500]
OkResponse(body) == [status_code |-> 200, json |-> body]

\* A worklog of the REST answer. One that lacks 'id' makes worklog['id'] raise
\* KeyError while its record is built.
GoodWorklog(n) == [id |-> n, author |-> "author"]
BadWorklog(n) == [author |-> "author"]

\* the worklog lists of an answer: up to MaxWorklogs worklogs, of which at
\* most one lacks 'id' (the conversion of a list ends at the first such one)
WorklogLists ==
    UNION { { [i \in 1..n |-> IF i = bad THEN BadWorklog(i) ELSE GoodWorklog(i)] :
                bad \in 0..n } : n \in 0..MaxWorklogs }

\* what the remote service holds for one issue; the worklog answer of an issue
\* whose metadata call fails is never asked for and is fixed
IssueData ==
    { d \in [ metadata : {ErrorResponse, OkResponse([issue_type |-> "Story"])},
              worklogs : {ErrorResponse} \cup { OkResponse(w) : w \in WorklogLists } ] :
        d.metadata = ErrorResponse => d.worklogs = ErrorResponse }

\* the keys handed to extract_worklogs: the first n keys of the project
ExtractKeys(n) == [i \in 1..n |-> MkKey(PROJECT_KEY, i)]

\* Variant: "if cached_data:", an empty cached value counts as a miss
IsHitIfTruthy(cached_data) == cached_data \notin {None, PyList(<< >>)}

\* if cached_data is not None
IsHit(cached_data) == cached_data # None

\* Variant: _save_to_cache without the except clause
SaveRaisesUncaught(enabled, fault) == enabled /\ fault # "none"

\* _save_to_cache: except Exception logs the failure, the call returns normally
SaveRaises(enabled, fault) == FALSE

\* get_issue_metadata(issue_key): cache, else fetch and save. rfault and wfault
\* name what goes wrong in its cache read and in its cache write.
\* [raised, value, dir, hit, fetched, saves]: fetched counts its remote calls,
\* saves its calls of _save_to_cache
get_issue_metadata(enabled, ttl, dir, t, data, issue_key, rfault, wfault) ==
    LET cache_key == _get_cache_key("metadata", issue_key)
        cached == GetFromCache(enabled, ttl, dir, t, cache_key, rfault)
    IN IF cached.raised
       THEN [raised |-> TRUE, value |-> None, dir |-> cached.dir,
             hit |-> FALSE, fetched |-> 0, saves |-> 0]
       ELSE IF IsHit(cached.ret)
       THEN [raised |-> FALSE, value |-> cached.ret, dir |-> cached.dir,
             hit |-> TRUE, fetched |-> 0, saves |-> 0]
       ELSE IF data[issue_key].metadata.status_code # 200
       THEN [raised |-> TRUE, value |-> None, dir |-> cached.dir,
             hit |-> FALSE, fetched |-> 1, saves |-> 0]
       ELSE [raised |-> SaveRaises(enabled, wfault),
             value |-> data[issue_key].metadata.json,
             dir |-> SaveToCache(enabled, cached.dir, t, cache_key,
                                 data[issue_key].metadata.json, wfault),
             hit |-> FALSE, fetched |-> 1, saves |-> 1]

\* Variant: the answer is saved before raise_for_status, an error as None
get_worklogs_saving_first(enabled, ttl, dir, t, data, issue_key, rfault, wfault) ==
    LET cache_key == _get_cache_key("worklogs", issue_key)
        cached == GetFromCache(enabled, ttl, dir, t, cache_key, rfault)
    IN IF cached.raised
       THEN [raised |-> TRUE, value |-> None, dir |-> cached.dir,
             hit |-> FALSE, fetched |-> 0, saves |-> 0]
       ELSE IF IsHit(cached.ret)
       THEN [raised |-> FALSE, value |-> cached.ret, dir |-> cached.dir,
             hit |-> TRUE, fetched |-> 0, saves |-> 0]
       ELSE IF data[issue_key].worklogs.status_code # 200
       THEN [raised |-> TRUE, value |-> None,
             dir |-> SaveToCache(enabled, cached.dir, t, cache_key, None, wfault),
             hit |-> FALSE, fetched |-> 1, saves |-> 0]
       ELSE [raised |-> SaveRaises(enabled, wfault),
             value |-> PyList(data[issue_key].worklogs.json),
             dir |-> SaveToCache(enabled, cached.dir, t, cache_key,
                                 PyList(data[issue_key].worklogs.json), wfault),
             hit |-> FALSE, fetched |-> 1, saves |-> 1]

\* get_worklogs(issue_key): cache, else fetch and save.
get_worklogs(enabled, ttl, dir, t, data, issue_key, rfault, wfault) ==
    LET cache_key == _get_cache_key("worklogs", issue_key)
        cached == GetFromCache(enabled, ttl, dir, t, cache_key, rfault)
    IN IF cached.raised
       THEN [raised |-> TRUE, value |-> None, dir |-> cached.dir,
             hit |-> FALSE, fetched |-> 0, saves |-> 0]
       ELSE IF IsHit(cached.ret)
       THEN [raised |-> FALSE, value |-> cached.ret, dir |-> cached.dir,
             hit |-> TRUE, fetched |-> 0, saves |-> 0]
       ELSE IF data[issue_key].worklogs.status_code # 200
       THEN [raised |-> TRUE, value |-> None, dir |-> cached.dir,
             hit |-> FALSE, fetched |-> 1, saves |-> 0]
       ELSE [raised |-> SaveRaises(enabled, wfault),
             value |-> PyList(data[issue_key].worklogs.json),
             dir |-> SaveToCache(enabled, cached.dir, t, cache_key,
                                 PyList(data[issue_key].worklogs.json), wfault),
             hit |-> FALSE, fetched |-> 1, saves |-> 1]

\* The values of a JSON answer as Python holds them: str, int, float, dict,
\* list (PyList) and None. The text of a str is a TLA+ string; the first
\* character of a str and the str() of a value are strs of their own kind.
PyStr(s) == [str |-> s]
PyInt(n) == [int |-> n]
PyFloat(whole, tenths) == [float |-> <<whole, tenths>>]
PyDict(f) == [dict |-> f]
FirstChar(v) == [first_char_of |-> v]
Serialized(v) == [str_of |-> v]

\* isinstance(v, str), isinstance(v, dict)
IsStr(v) == DOMAIN v \in {{"str"}, {"first_char_of"}, {"str_of"}}
IsDict(v) == DOMAIN v = {"dict"}
IsList(v) == DOMAIN v = {"list"}

\* bool(v)
Truthy(v) ==
    CASE v = None -> FALSE
      [] DOMAIN v = {"str"} -> v.str # ""
      [] IsList(v) -> v.list # << >>
      [] IsDict(v) -> DOMAIN v.dict # {}
      [] DOMAIN v = {"int"} -> v.int # 0
      [] OTHER -> TRUE

\* d.get(key, default) of a dict
DictGet(d, key, default) == IF key \in DOMAIN d.dict THEN d.dict[key] ELSE default

\* a call that returned value, a call that raised the exception
Returned(value) == [raised |-> "", value |-> value]
Raised(exception) == [raised |-> exception, value |-> None]

\* Variant: the last element is taken, not the first
SubscriptLast(v) ==
    IF IsList(v)
    THEN IF v.list = << >> THEN Raised("IndexError") ELSE Returned(v.list[Len(v.list)])
    ELSE IF IsStr(v) THEN Returned(FirstChar(v))
    ELSE IF IsDict(v) THEN Raised("KeyError")
    ELSE Raised("TypeError")

\* v[0]: the first element of a list, the first character of a str; a dict
\* of a JSON answer has no key 0; other values cannot be subscripted
Subscript0(v) ==
    IF IsList(v)
    THEN IF v.list = << >> THEN Raised("IndexError") ELSE Returned(v.list[1])
    ELSE IF IsStr(v) THEN Returned(FirstChar(v))
    ELSE IF IsDict(v) THEN Raised("KeyError")
    ELSE Raised("TypeError")

\* "if x and len(x) > 0" passes: x is true and has a length, which is then
\* above 0; len() of a true value without a length raises TypeError
Sized(v) == IsStr(v) \/ IsList(v) \/ IsDict(v)

\* the try block for a comment in Atlassian Document Format: the text of the
\* first node of the first block, '' where a test does not pass
FirstNodeText(comment_field) ==
    LET content == DictGet(comment_field, "content", PyList(<< >>))
    IN IF ~Truthy(content) THEN Returned(PyStr(""))
       ELSE IF ~Sized(content) THEN Raised("TypeError")
       ELSE LET first_block == Subscript0(content)
            IN IF first_block.raised # "" THEN first_block
               ELSE IF ~IsDict(first_block.value) THEN Returned(PyStr(""))
               ELSE LET block_content == DictGet(first_block.value, "content", PyList(<< >>))
                    IN IF ~Truthy(block_content) THEN Returned(PyStr(""))
                       ELSE IF ~Sized(block_content) THEN Raised("TypeError")
                       ELSE LET text_node == Subscript0(block_content)
                            IN IF text_node.raised # "" THEN text_node
                               ELSE IF ~IsDict(text_node.value) THEN Returned(PyStr(""))
                               ELSE Returned(DictGet(text_node.value, "text", PyStr("")))

\* the comment of the record of a worklog: '' unless worklog.get('comment')
\* is true, a str as it is, a dict through the try block, whose except clause
\* turns KeyError, IndexError and AttributeError into str(comment_field)
Comment(worklog) ==
    IF "comment" \notin DOMAIN worklog \/ ~Truthy(worklog.comment)
    THEN Returned(PyStr(""))
    ELSE IF IsStr(worklog.comment) THEN Returned(worklog.comment)
    ELSE IF IsDict(worklog.comment)
    THEN LET r == FirstNodeText(worklog.comment)
         IN IF r.raised \in {"KeyError", "IndexError", "AttributeError"}
            THEN Returned(Serialized(worklog.comment))
            ELSE r
    ELSE Returned(PyStr(""))

\* worklog.get(key, default)
WorklogGet(worklog, key, default) == IF key \in DOMAIN worklog THEN worklog[key] ELSE default

\* Variant: the record carries the key the worklog itself names as its issue
WorklogRecordByWorklog(issue_key, metadata, worklog) ==
    IF {"id", "author"} \subseteq DOMAIN worklog
    THEN [raised |-> FALSE,
          record |-> [issue_key |-> MkKey(PROJECT_KEY, worklog.id + 2),
                      issue_type |-> metadata.issue_type, worklog_id |-> worklog.id]]
    ELSE [raised |-> TRUE]

\* the record built from one worklog: the comment is worked out first;
\* worklog['id'] and worklog['author'] are subscripted, a missing one raises
\* KeyError; the time fields are taken over with worklog.get
WorklogRecord(issue_key, metadata, worklog) ==
    IF Comment(worklog).raised = "" /\ {"id", "author"} \subseteq DOMAIN worklog
    THEN [raised |-> FALSE,
          record |-> [issue_key |-> issue_key, issue_type |-> metadata.issue_type,
                      worklog_id |-> worklog.id,
                      time_spent |-> WorklogGet(worklog, "timeSpent", PyStr("")),
                      time_spent_seconds |-> WorklogGet(worklog, "timeSpentSeconds", PyInt(0)),
                      comment |-> Comment(worklog).value]]
    ELSE [raised |-> TRUE]

\* a submitted task that no worker has taken yet; calls counts the remote
\* calls the task makes
QueuedTask(issue_key) ==
    [ key |-> issue_key, pc |-> "queued", metadata |-> None, worklogs |-> PyList(<< >>),
      next |-> 1, result_worklogs |-> << >>, errored |-> FALSE, calls |-> 0 ]

\* the except clause of _extract_issue_worklogs: the error is printed and the
\* function goes on to "return result_worklogs"
ExceptHandler(task) == [task EXCEPT !.pc = "finished", !.errored = TRUE]

Running(ts) ==
    { i \in DOMAIN ts : ts[i].pc \in {"meta", "meta_read", "meta_fetch",
                                      "worklogs", "worklogs_fetch", "convert"} }

\* Variant: the pool starts a thread for every submitted task
HasIdleWorkerAlways(ts, workers) == TRUE

\* ThreadPoolExecutor(max_workers=max_workers): a queued task is taken while
\* fewer than max_workers tasks run
HasIdleWorker(ts, workers) == Cardinality(Running(ts)) < workers

InitExtract ==
    /\ OuterIdle
    /\ CollectorIdle
    /\ RetryIdle
    /\ RaceIdle
    /\ SearchIdle
    /\ ConvertIdle
    /\ use_cache \in BOOLEAN
    /\ cache_ttl = MaxTtl
    /\ now = 0
    /\ files = << >>
    /\ op = NoOp
    /\ \E n \in 0..MaxIssues :
        /\ issue_keys = ExtractKeys(n)
        /\ jira \in [ { ExtractKeys(n)[i] : i \in 1..n } -> IssueData ]
    /\ max_workers \in 1..MaxWorkers
    /\ tasks = << >>
    /\ issue_metadata_cache = << >>
    /\ all_worklogs = << >>
    /\ collected = {}
    /\ ex_status = "called"

\* executor.submit for every key
Submit ==
    /\ ex_status = "called"
    /\ tasks' = [i \in 1..Len(issue_keys) |-> QueuedTask(issue_keys[i])]
    /\ ex_status' = "running"
    /\ UNCHANGED <<jira, issue_keys, max_workers, issue_metadata_cache, all_worklogs,
                   collected, collector_vars, retry_vars, outer_vars, race_vars, search_vars, convert_vars, cache_vars>>

\* a free worker thread takes the oldest queued task
StartTask ==
    /\ ex_status = "running"
    /\ HasIdleWorker(tasks, max_workers)
    /\ \E i \in DOMAIN tasks :
        /\ tasks[i].pc = "queued"
        /\ \A j \in 1..(i - 1) : tasks[j].pc # "queued"
        /\ tasks' = [tasks EXCEPT ![i].pc = "meta"]
    /\ UNCHANGED <<jira, issue_keys, max_workers, issue_metadata_cache, all_worklogs,
                   collected, ex_status, collector_vars, retry_vars, outer_vars, race_vars, search_vars, convert_vars, cache_vars>>

\* _extract_issue_worklogs: the metadata of the issue
TaskMetadata ==
    /\ ex_status = "running"
    /\ \E i \in DOMAIN tasks :
        /\ tasks[i].pc = "meta"
        /\ LET key == tasks[i].key
           IN IF key \in DOMAIN issue_metadata_cache
              THEN /\ tasks' = [tasks EXCEPT ![i].metadata = issue_metadata_cache[key],
                                             ![i].pc = "worklogs"]
                   /\ UNCHANGED <<issue_metadata_cache, files>>
              ELSE LET r == get_issue_metadata(use_cache, cache_ttl, files, now, jira, key,
                                                "none", "none")
                       called == [tasks[i] EXCEPT !.calls = @ + r.fetched]
                   IN /\ files' = r.dir
                      /\ IF r.raised
                         THEN /\ tasks' = [tasks EXCEPT ![i] = ExceptHandler(called)]
                              /\ UNCHANGED issue_metadata_cache
                         ELSE /\ issue_metadata_cache' =
                                    [k \in DOMAIN issue_metadata_cache \cup {key} |->
                                        IF k = key THEN r.value ELSE issue_metadata_cache[k]]
                              /\ tasks' = [tasks EXCEPT ![i] =
                                              [called EXCEPT !.metadata = r.value,
                                                             !.pc = "worklogs"]]
    /\ UNCHANGED <<jira, issue_keys, max_workers, all_worklogs, collected, ex_status,
                   collector_vars, retry_vars, outer_vars, race_vars, search_vars, convert_vars, use_cache, cache_ttl, now, op>>

\* _extract_issue_worklogs: worklogs = self.get_worklogs(issue_key)
TaskWorklogs ==
    /\ ex_status = "running"
    /\ \E i \in DOMAIN tasks :
        /\ tasks[i].pc = "worklogs"
        /\ LET r == get_worklogs(use_cache, cache_ttl, files, now, jira, tasks[i].key,
                                 "none", "none")
               called == [tasks[i] EXCEPT !.calls = @ + r.fetched]
           IN /\ files' = r.dir
              /\ IF r.raised
                 THEN tasks' = [tasks EXCEPT ![i] = ExceptHandler(called)]
                 ELSE tasks' = [tasks EXCEPT ![i] =
                                  [called EXCEPT !.worklogs = r.value, !.next = 1,
                                                 !.pc = "convert"]]
    /\ UNCHANGED <<jira, issue_keys, max_workers, issue_metadata_cache, all_worklogs,
                   collected, ex_status, collector_vars, retry_vars, outer_vars, race_vars, search_vars, convert_vars, use_cache, cache_ttl, now, op>>

\* _extract_issue_worklogs: one iteration of "for worklog in worklogs"
TaskConvert ==
    /\ ex_status = "running"
    /\ \E i \in DOMAIN tasks :
        /\ tasks[i].pc = "convert"
        /\ tasks[i].next <= Len(tasks[i].worklogs.list)
        /\ LET r == WorklogRecord(tasks[i].key, tasks[i].metadata,
                                  tasks[i].worklogs.list[tasks[i].next])
           IN IF r.raised
              THEN tasks' = [tasks EXCEPT ![i] = ExceptHandler(@)]
              ELSE tasks' = [tasks EXCEPT ![i].result_worklogs = Append(@, r.record),
                                          ![i].next = @ + 1]
    /\ UNCHANGED <<jira, issue_keys, max_workers, issue_metadata_cache, all_worklogs,
                   collected, ex_status, collector_vars, retry_vars, outer_vars, race_vars, search_vars, convert_vars, cache_vars>>

\* _extract_issue_worklogs: return result_worklogs after the loop
TaskReturn ==
    /\ ex_status = "running"
    /\ \E i \in DOMAIN tasks :
        /\ tasks[i].pc = "convert"
        /\ tasks[i].next > Len(tasks[i].worklogs.list)
        /\ tasks' = [tasks EXCEPT ![i].pc = "finished"]
    /\ UNCHANGED <<jira, issue_keys, max_workers, issue_metadata_cache, all_worklogs,
                   collected, ex_status, collector_vars, retry_vars, outer_vars, race_vars, search_vars, convert_vars, cache_vars>>

\* extract_worklogs: as_completed yields a finished future, its result is
\* appended to all_worklogs
Collect ==
    /\ ex_status = "running"
    /\ \E i \in DOMAIN tasks \ collected :
        /\ tasks[i].pc = "finished"
        /\ all_worklogs' = all_worklogs \o tasks[i].result_worklogs
        /\ collected' = collected \cup {i}
    /\ UNCHANGED <<jira, issue_keys, max_workers, tasks, issue_metadata_cache, ex_status,
                   collector_vars, retry_vars, outer_vars, race_vars, search_vars, convert_vars, cache_vars>>

\* extract_worklogs: every future has been yielded, return all_worklogs
ExtractReturn ==
    /\ ex_status = "running"
    /\ collected = DOMAIN tasks
    /\ ex_status' = "returned"
    /\ UNCHANGED <<jira, issue_keys, max_workers, tasks, issue_metadata_cache, all_worklogs,
                   collected, collector_vars, retry_vars, outer_vars, race_vars, search_vars, convert_vars, cache_vars>>

NextExtract ==
    \/ Submit
    \/ StartTask
    \/ TaskMetadata
    \/ TaskWorklogs
    \/ TaskConvert
    \/ TaskReturn
    \/ Collect
    \/ ExtractReturn

SpecExtract == InitExtract /\ [][NextExtract]_vars

----------------------------------------------------------------------------
(* extract_worklogs with keys that may repeat. The steps of a task are taken *)
(* apart where another task of the same key can come between: the look into *)
(* issue_metadata_cache, the cache read and the remote call of               *)
(* get_issue_metadata, the cache read and the remote call of get_worklogs.   *)

IssueTypes == <<"Story", "Bug", "Task", "Sub-task">>

\* the n of the key "<project>-<n>"
KeyNumber(key) == key[Len(key)] - 48

\* what the remote service holds for a key: the issue type of the key, and at
\* most one worklog
KeyData(key) ==
    { d \in [ metadata : {ErrorResponse,
                          OkResponse([issue_type |-> IssueTypes[KeyNumber(key)]])},
              worklogs : {ErrorResponse, OkResponse(<< >>), OkResponse(<<GoodWorklog(1)>>),
                          OkResponse(<<BadWorklog(1)>>)} ] :
        d.metadata = ErrorResponse => d.worklogs = ErrorResponse }

\* the key lists of length n in which keys may repeat: the first key is ZYN-1,
\* a later key is one of the earlier keys or the next key of the project
KeyLists(n) ==
    { [i \in 1..n |-> MkKey(PROJECT_KEY, s[i])] :
        s \in { t \in [1..n -> 1..n] :
                  \A i \in 1..n : \/ \E j \in 1..(i - 1) : t[j] = t[i]
                                  \/ t[i] = 1 + Cardinality({ t[j] : j \in 1..(i - 1) }) } }

InitExtractSteps ==
    /\ OuterIdle
    /\ CollectorIdle
    /\ RetryIdle
    /\ RaceIdle
    /\ SearchIdle
    /\ ConvertIdle
    /\ use_cache \in BOOLEAN
    /\ cache_ttl = MaxTtl
    /\ now = 0
    /\ files = << >>
    /\ op = NoOp
    /\ \E n \in 0..MaxIssues :
        /\ issue_keys \in KeyLists(n)
        /\ jira \in [ { issue_keys[i] : i \in 1..n } ->
                        UNION { KeyData(issue_keys[i]) : i \in 1..n } ]
        /\ \A k \in DOMAIN jira : jira[k] \in KeyData(k)
    /\ max_workers \in 1..MaxWorkers
    /\ tasks = << >>
    /\ issue_metadata_cache = << >>
    /\ all_worklogs = << >>
    /\ collected = {}
    /\ ex_status = "called"

\* issue_metadata_cache[issue_key] = value
SlotAssign(slots, issue_key, value) ==
    [k \in DOMAIN slots \cup {issue_key} |-> IF k = issue_key THEN value ELSE slots[k]]

\* if issue_key not in issue_metadata_cache
TaskSlotCheck ==
    /\ ex_status = "running"
    /\ \E i \in DOMAIN tasks :
        /\ tasks[i].pc = "meta"
        /\ IF tasks[i].key \in DOMAIN issue_metadata_cache
           THEN tasks' = [tasks EXCEPT ![i].metadata = issue_metadata_cache[tasks[i].key],
                                       ![i].pc = "worklogs"]
           ELSE tasks' = [tasks EXCEPT ![i].pc = "meta_read"]
    /\ UNCHANGED <<jira, issue_keys, max_workers, issue_metadata_cache, all_worklogs,
                   collected, ex_status, collector_vars, retry_vars, outer_vars, race_vars, search_vars, convert_vars, cache_vars>>

\* get_issue_metadata: the cache read; a hit is returned and put into the slot
TaskMetadataRead ==
    /\ ex_status = "running"
    /\ \E i \in DOMAIN tasks :
        /\ tasks[i].pc = "meta_read"
        /\ LET r == GetFromCache(use_cache, cache_ttl, files, now,
                                 _get_cache_key("metadata", tasks[i].key), "none")
           IN /\ files' = r.dir
              /\ IF IsHit(r.ret)
                 THEN /\ issue_metadata_cache' =
                            SlotAssign(issue_metadata_cache, tasks[i].key, r.ret)
                      /\ tasks' = [tasks EXCEPT ![i].metadata = r.ret, ![i].pc = "worklogs"]
                 ELSE /\ tasks' = [tasks EXCEPT ![i].pc = "meta_fetch"]
                      /\ UNCHANGED issue_metadata_cache
    /\ UNCHANGED <<jira, issue_keys, max_workers, all_worklogs, collected, ex_status,
                   collector_vars, retry_vars, outer_vars, race_vars, search_vars, convert_vars, use_cache, cache_ttl, now, op>>

\* Variant: a failed metadata call is passed over and the task goes on to the
\* worklogs
TaskMetadataFetchGoesOn ==
    /\ ex_status = "running"
    /\ \E i \in DOMAIN tasks :
        /\ tasks[i].pc = "meta_fetch"
        /\ LET key == tasks[i].key
               called == [tasks[i] EXCEPT !.calls = @ + 1]
           IN IF jira[key].metadata.status_code # 200
              THEN /\ tasks' = [tasks EXCEPT ![i] = [called EXCEPT !.pc = "worklogs"]]
                   /\ UNCHANGED <<issue_metadata_cache, files>>
              ELSE /\ files' = SaveToCache(use_cache, files, now,
                                           _get_cache_key("metadata", key),
                                           jira[key].metadata.json, "none")
                   /\ issue_metadata_cache' =
                         SlotAssign(issue_metadata_cache, key, jira[key].metadata.json)
                   /\ tasks' = [tasks EXCEPT ![i] =
                                   [called EXCEPT !.metadata = jira[key].metadata.json,
                                                  !.pc = "worklogs"]]
    /\ UNCHANGED <<jira, issue_keys, max_workers, all_worklogs, collected, ex_status,
                   collector_vars, retry_vars, outer_vars, race_vars, search_vars, convert_vars, use_cache, cache_ttl, now, op>>

\* get_issue_metadata: the remote call, the cache write, and the assignment
\* to the slot
TaskMetadataFetch ==
    /\ ex_status = "running"
    /\ \E i \in DOMAIN tasks :
        /\ tasks[i].pc = "meta_fetch"
        /\ LET key == tasks[i].key
               called == [tasks[i] EXCEPT !.calls = @ + 1]
           IN IF jira[key].metadata.status_code # 200
              THEN /\ tasks' = [tasks EXCEPT ![i] = ExceptHandler(called)]
                   /\ UNCHANGED <<issue_metadata_cache, files>>
              ELSE /\ files' = SaveToCache(use_cache, files, now,
                                           _get_cache_key("metadata", key),
                                           jira[key].metadata.json, "none")
                   /\ issue_metadata_cache' =
                         SlotAssign(issue_metadata_cache, key, jira[key].metadata.json)
                   /\ tasks' = [tasks EXCEPT ![i] =
                                   [called EXCEPT !.metadata = jira[key].metadata.json,
                                                  !.pc = "worklogs"]]
    /\ UNCHANGED <<jira, issue_keys, max_workers, all_worklogs, collected, ex_status,
                   collector_vars, retry_vars, outer_vars, race_vars, search_vars, convert_vars, use_cache, cache_ttl, now, op>>

\* get_worklogs: the cache read
TaskWorklogsRead ==
    /\ ex_status = "running"
    /\ \E i \in DOMAIN tasks :
        /\ tasks[i].pc = "worklogs"
        /\ LET r == GetFromCache(use_cache, cache_ttl, files, now,
                                 _get_cache_key("worklogs", tasks[i].key), "none")
           IN /\ files' = r.dir
              /\ IF IsHit(r.ret)
                 THEN tasks' = [tasks EXCEPT ![i].worklogs = r.ret, ![i].next = 1,
                                             ![i].pc = "convert"]
                 ELSE tasks' = [tasks EXCEPT ![i].pc = "worklogs_fetch"]
    /\ UNCHANGED <<jira, issue_keys, max_workers, issue_metadata_cache, all_worklogs,
                   collected, ex_status, collector_vars, retry_vars, outer_vars, race_vars, search_vars, convert_vars,
                   use_cache, cache_ttl, now, op>>

\* get_worklogs: the remote call and the cache write
TaskWorklogsFetch ==
    /\ ex_status = "running"
    /\ \E i \in DOMAIN tasks :
        /\ tasks[i].pc = "worklogs_fetch"
        /\ LET key == tasks[i].key
               called == [tasks[i] EXCEPT !.calls = @ + 1]
           IN IF jira[key].worklogs.status_code # 200
              THEN /\ tasks' = [tasks EXCEPT ![i] = ExceptHandler(called)]
                   /\ UNCHANGED files
              ELSE /\ files' = SaveToCache(use_cache, files, now,
                                           _get_cache_key("worklogs", key),
                                           PyList(jira[key].worklogs.json), "none")
                   /\ tasks' = [tasks EXCEPT ![i] =
                                   [called EXCEPT !.worklogs = PyList(jira[key].worklogs.json),
                                                  !.next = 1, !.pc = "convert"]]
    /\ UNCHANGED <<jira, issue_keys, max_workers, issue_metadata_cache, all_worklogs,
                   collected, ex_status, collector_vars, retry_vars, outer_vars, race_vars, search_vars, convert_vars,
                   use_cache, cache_ttl, now, op>>

NextExtractSteps ==
    \/ Submit
    \/ StartTask
    \/ TaskSlotCheck
    \/ TaskMetadataRead
    \/ TaskMetadataFetch
    \/ TaskWorklogsRead
    \/ TaskWorklogsFetch
    \/ TaskConvert
    \/ TaskReturn
    \/ Collect
    \/ ExtractReturn

SpecExtractSteps == InitExtractSteps /\ [][NextExtractSteps]_vars

----------------------------------------------------------------------------
(* get_worklogs and get_issue_metadata, called one after another on one     *)
(* issue while time passes, the remote data change and cache operations     *)
(* fail                                                                     *)

FetchKey == MkKey(PROJECT_KEY, 1)

\* what the remote service holds for the issue
FetchData ==
    [ metadata : { ErrorResponse, OkResponse([issue_type |-> "Story"]) },
      worklogs : { ErrorResponse, OkResponse(<< >>), OkResponse(<<GoodWorklog(1)>>) } ]

\* what goes wrong in the cache read of a call: nothing, a failure the read
\* catches (stat) or one it does not (exists); SpecCache goes through all
FetchReadFaults == {"none", "stat", "exists"}

InitFetch ==
    /\ OuterIdle
    /\ CollectorIdle
    /\ RetryIdle
    /\ RaceIdle
    /\ SearchIdle
    /\ ConvertIdle
    /\ use_cache \in BOOLEAN
    /\ cache_ttl \in 0..MaxTtl
    /\ now = 0
    /\ files = << >>
    /\ op = NoOp
    /\ jira \in [ {FetchKey} -> FetchData ]
    /\ issue_keys = << >>
    /\ max_workers = 1
    /\ tasks = << >>
    /\ issue_metadata_cache = << >>
    /\ all_worklogs = << >>
    /\ collected = {}
    /\ ex_status = "idle"

\* the issue is changed on the remote side
RemoteUpdate ==
    /\ \E d \in FetchData :
        /\ d # jira[FetchKey]
        /\ jira' = [jira EXCEPT ![FetchKey] = d]
    /\ op' = [name |-> "update"]
    /\ UNCHANGED <<use_cache, cache_ttl, now, files, issue_keys, max_workers, tasks,
                   issue_metadata_cache, all_worklogs, collected, ex_status,
                   collector_vars, retry_vars, outer_vars, race_vars, search_vars, convert_vars>>

\* a call of get_worklogs(issue_key)
GetWorklogs ==
    /\ \E rfault \in FetchReadFaults, wfault \in WriteFaults :
        LET r == get_worklogs(use_cache, cache_ttl, files, now, jira, FetchKey, rfault, wfault)
        IN /\ files' = r.dir
           /\ op' = [name |-> "get_worklogs", key |-> _get_cache_key("worklogs", FetchKey),
                     rfault |-> rfault, wfault |-> wfault, raised |-> r.raised,
                     ret |-> r.value, hit |-> r.hit, fetched |-> r.fetched,
                     saves |-> r.saves]
    /\ UNCHANGED <<use_cache, cache_ttl, now, collector_vars, extract_vars, retry_vars, outer_vars,
                   race_vars, search_vars, convert_vars>>

\* a call of get_issue_metadata(issue_key)
GetIssueMetadata ==
    /\ \E rfault \in FetchReadFaults, wfault \in WriteFaults :
        LET r == get_issue_metadata(use_cache, cache_ttl, files, now, jira, FetchKey,
                                    rfault, wfault)
        IN /\ files' = r.dir
           /\ op' = [name |-> "get_issue_metadata",
                     key |-> _get_cache_key("metadata", FetchKey),
                     rfault |-> rfault, wfault |-> wfault, raised |-> r.raised,
                     ret |-> r.value, hit |-> r.hit, fetched |-> r.fetched,
                     saves |-> r.saves]
    /\ UNCHANGED <<use_cache, cache_ttl, now, collector_vars, extract_vars, retry_vars, outer_vars,
                   race_vars, search_vars, convert_vars>>

NextFetch ==
    \/ Tick
    \/ RemoteUpdate
    \/ GetWorklogs
    \/ GetIssueMetadata

SpecFetch == InitFetch /\ [][NextFetch]_vars

----------------------------------------------------------------------------
(* _create_session_with_retries: the retry policy of the session.           *)
(* session.get hands the request to the HTTPAdapter, whose Retry object     *)
(* decides after every attempt whether the request is sent again; the       *)
(* caller then applies raise_for_status to the response it is given.        *)

\* Retry(total=3, status_forcelist=[...], allowed_methods=[...], raise_on_status=False)
total == 3
status_forcelist == {429, 500, 502, 503, 504}
allowed_methods == {"GET", "POST"}
raise_on_status == FALSE

\* Retry's default respect_retry_after_header=True: an answer of one of these
\* statuses that carries a Retry-After header is retried as well
RETRY_AFTER_STATUS_CODES == {413, 429, 503}

\* the methods a request of the session is made with
Methods == {"GET", "POST", "PUT"}

\* what one attempt can end in: an answer of the server, or no answer
Answer(code, has_retry_after) ==
    [kind |-> "status", status_code |-> code, has_retry_after |-> has_retry_after]
ConnectError == [kind |-> "connect_error"]     \* the connection was not established
ReadError == [kind |-> "read_error"]           \* the connection broke before the answer

StatusCodes == {200, 400, 401, 403, 404, 413} \cup status_forcelist

Outcomes ==
    { Answer(c, FALSE) : c \in StatusCodes }
        \cup { Answer(c, TRUE) : c \in RETRY_AFTER_STATUS_CODES }
        \cup { ConnectError, ReadError }

\* Variant: every failure answer is retried
is_retry_on_every_failure(m, status_code, has_retry_after, left) ==
    m \in allowed_methods /\ status_code >= 400

\* Retry.is_retry(method, status_code, has_retry_after), left retries remaining
is_retry(m, status_code, has_retry_after, left) ==
    IF m \notin allowed_methods THEN FALSE
    ELSE IF status_code \in status_forcelist THEN TRUE
    ELSE left # 0 /\ has_retry_after /\ status_code \in RETRY_AFTER_STATUS_CODES

\* Retry.increment for an attempt without answer: a connection error is
\* counted against total whatever the method, a read error is raised at once
\* unless the method is one of allowed_methods
is_error_retried(m, outcome) ==
    outcome = ConnectError \/ (outcome = ReadError /\ m \in allowed_methods)

\* Variant: one more attempt is allowed before the retries count as exhausted
is_exhausted_late(left) == left < -1

\* Retry.is_exhausted(), after increment() has counted the attempt
is_exhausted(left) == left < 0

\* response.raise_for_status() raises HTTPError for a 4xx or 5xx answer
raise_for_status(response) ==
    response.status_code >= 400 /\ response.status_code < 600

InitRetry ==
    /\ OuterIdle
    /\ CollectorIdle
    /\ CacheIdle
    /\ ExtractIdle
    /\ RaceIdle
    /\ SearchIdle
    /\ ConvertIdle
    /\ method \in Methods
    /\ retries = total
    /\ attempts = << >>
    /\ call = "pending"

\* One attempt of the request (HTTPConnectionPool.urlopen): the outcome is
\* recorded; the Retry object sends the request again, or the adapter hands
\* the response to the caller, or raises (MaxRetryError or the error itself).
Attempt ==
    /\ call = "pending"
    /\ \E outcome \in Outcomes :
        /\ attempts' = Append(attempts, outcome)
        /\ IF outcome.kind = "status"
           THEN IF is_retry(method, outcome.status_code, outcome.has_retry_after, retries)
                THEN /\ retries' = retries - 1
                     /\ call' = IF ~is_exhausted(retries - 1) THEN "pending"
                                ELSE IF raise_on_status THEN "raised" ELSE "response"
                ELSE /\ retries' = retries
                     /\ call' = "response"
           ELSE IF is_error_retried(method, outcome)
                THEN /\ retries' = retries - 1
                     /\ call' = IF is_exhausted(retries - 1) THEN "raised" ELSE "pending"
                ELSE /\ retries' = retries
                     /\ call' = "raised"
    /\ UNCHANGED <<method, collector_vars, cache_vars, extract_vars, race_vars, outer_vars, search_vars, convert_vars>>

\* The caller: response.raise_for_status(), then response.json()
RaiseForStatus ==
    /\ call = "response"
    /\ call' = IF raise_for_status(attempts[Len(attempts)]) THEN "raised" ELSE "returned"
    /\ UNCHANGED <<method, retries, attempts, collector_vars, cache_vars, extract_vars,
                   race_vars, outer_vars, search_vars, convert_vars>>

NextRetry ==
    \/ Attempt
    \/ RaiseForStatus

SpecRetry == InitRetry /\ [][NextRetry]_vars

----------------------------------------------------------------------------
(* _get_from_cache and _save_to_cache of one cache key, run by several       *)
(* threads at once. open(cache_file, 'wb') truncates the file in place and  *)
(* pickle.dump writes into it; a pickle larger than the file buffer reaches  *)
(* the disk in several writes, the last of them when the with block closes   *)
(* the file, and pickle.load reads it in as many pieces. Every open file has *)
(* its own offset. There is no lock and no rename.                          *)

RaceValues == {"A", "B"}

\* piece i of the n pieces of pickle.dumps(v); the last one ends with STOP
Chunk(v, i, n) == [of |-> v, i |-> i, last |-> i = n]
Pickled(v, n) == [i \in 1..n |-> Chunk(v, i, n)]

\* the zero bytes the file system puts before a write that starts past the
\* end of the file
Hole == [hole |-> TRUE]

\* a thread about to call _get_from_cache, _save_to_cache(v)
Reader == [role |-> "reader", pc |-> "start", pos |-> 0, data |-> << >>, ret |-> None,
           closed_at |-> 0]
Writer(v, n) == [role |-> "writer", pc |-> "start", pos |-> 0, data |-> Pickled(v, n),
                 ret |-> None, closed_at |-> 0]

\* f.write at offset pos: the piece replaces what is there, the file grows
WriteAt(content, pos, chunk) ==
    [ i \in 1..(IF pos > Len(content) THEN pos ELSE Len(content)) |->
        IF i = pos THEN chunk ELSE IF i <= Len(content) THEN content[i] ELSE Hole ]

\* What pickle.load can make of the pieces read, up to a piece that ends with
\* STOP: the value when they are the pieces of one pickle; of pieces of
\* different pickles either an error, which the except clause turns into None,
\* or a value put together from both
Load(buf) ==
    IF \A i \in 1..Len(buf) : buf[i] = Chunk(buf[1].of, i, Len(buf))
    THEN { [value |-> buf[1].of] }
    ELSE { None, [torn |-> [i \in 1..Len(buf) |-> buf[i].of]] }

InitRace ==
    /\ OuterIdle
    /\ CollectorIdle
    /\ CacheIdle
    /\ ExtractIdle
    /\ RetryIdle
    /\ SearchIdle
    /\ ConvertIdle
    /\ cache_file = [exists |-> FALSE, content |-> << >>]
    /\ threads \in [ 1..MaxThreads ->
                       {Reader} \cup { Writer(v, n) : v \in RaceValues, n \in 1..MaxChunks } ]

\* with open(cache_file, 'wb') as f: the file is created or truncated
WriterOpen ==
    /\ \E t \in DOMAIN threads :
        /\ threads[t].role = "writer" /\ threads[t].pc = "start"
        /\ cache_file' = [exists |-> TRUE, content |-> << >>]
        /\ threads' = [threads EXCEPT ![t].pc = "writing", ![t].pos = 1]
    /\ UNCHANGED <<collector_vars, cache_vars, extract_vars, retry_vars, outer_vars, search_vars, convert_vars>>

\* pickle.dump(data, f): a piece that is not the last reaches the file
WriterWrite ==
    /\ \E t \in DOMAIN threads :
        /\ threads[t].pc = "writing" /\ threads[t].pos < Len(threads[t].data)
        /\ cache_file' = [cache_file EXCEPT
                            !.content = WriteAt(@, threads[t].pos, threads[t].data[threads[t].pos])]
        /\ threads' = [threads EXCEPT ![t].pos = @ + 1]
    /\ UNCHANGED <<collector_vars, cache_vars, extract_vars, retry_vars, outer_vars, search_vars, convert_vars>>

\* the with block ends: the last piece is flushed and the file is closed
WriterClose ==
    /\ \E t \in DOMAIN threads :
        /\ threads[t].pc = "writing" /\ threads[t].pos = Len(threads[t].data)
        /\ cache_file' = [cache_file EXCEPT
                            !.content = WriteAt(@, threads[t].pos, threads[t].data[threads[t].pos])]
        /\ threads' = [threads EXCEPT
                         ![t].pc = "done",
                         ![t].closed_at = 1 + Cardinality({ u \in DOMAIN threads :
                                                              threads[u].closed_at > 0 })]
    /\ UNCHANGED <<collector_vars, cache_vars, extract_vars, retry_vars, outer_vars, search_vars, convert_vars>>

\* if not cache_file.exists(): return None
ReaderExists ==
    /\ \E t \in DOMAIN threads :
        /\ threads[t].role = "reader" /\ threads[t].pc = "start"
        /\ threads' = [threads EXCEPT ![t].pc = IF cache_file.exists THEN "open" ELSE "done"]
    /\ UNCHANGED <<cache_file, collector_vars, cache_vars, extract_vars, retry_vars, outer_vars,
                   search_vars, convert_vars>>

\* the age is within cache_ttl; with open(cache_file, 'rb') as f
ReaderOpen ==
    /\ \E t \in DOMAIN threads :
        /\ threads[t].pc = "open"
        /\ threads' = [threads EXCEPT ![t].pc = "reading", ![t].pos = 1]
    /\ UNCHANGED <<cache_file, collector_vars, cache_vars, extract_vars, retry_vars, outer_vars,
                   search_vars, convert_vars>>

\* pickle.load(f) reads the next piece at the offset of f. At the end of the
\* file or on zero bytes it raises and the call returns None; with a piece
\* that ends with STOP it returns.
ReaderRead ==
    /\ \E t \in DOMAIN threads :
        /\ threads[t].pc = "reading"
        /\ IF threads[t].pos > Len(cache_file.content)
              \/ cache_file.content[threads[t].pos] = Hole
           THEN threads' = [threads EXCEPT ![t].pc = "done", ![t].ret = None]
           ELSE LET buf == Append(threads[t].data, cache_file.content[threads[t].pos])
                IN IF cache_file.content[threads[t].pos].last
                   THEN \E r \in Load(buf) :
                           threads' = [threads EXCEPT ![t].pc = "done", ![t].data = buf,
                                                      ![t].ret = r]
                   ELSE threads' = [threads EXCEPT ![t].data = buf, ![t].pos = @ + 1]
    /\ UNCHANGED <<cache_file, collector_vars, cache_vars, extract_vars, retry_vars, outer_vars,
                   search_vars, convert_vars>>

NextRace ==
    \/ WriterOpen
    \/ WriterWrite
    \/ WriterClose
    \/ ReaderExists
    \/ ReaderOpen
    \/ ReaderRead

SpecRace == InitRace /\ [][NextRace]_vars

----------------------------------------------------------------------------
(* search_issues: the pages of one search. The matches are numbered         *)
(* 1..total; the service answers a request with the matches from startAt on, *)
(* at most maxResults of them and at most as many as its own page limit.    *)

\* the 'issues' of the answer to a request with startAt and maxResults
Batch(matches, page_limit, start_at, max_results) ==
    LET n == IF max_results < page_limit THEN max_results ELSE page_limit
        last == IF start_at + n < matches THEN start_at + n ELSE matches
    IN [i \in 1..(last - start_at) |-> start_at + i]

InitSearch ==
    /\ OuterIdle
    /\ CollectorIdle
    /\ CacheIdle
    /\ ExtractIdle
    /\ RetryIdle
    /\ RaceIdle
    /\ ConvertIdle
    /\ search \in [ pc : {"request"}, total : 0..MaxTotal, page_limit : 1..MaxPage,
                    max_results : 1..MaxPage, start_at : {0}, all_issues : {<< >>} ]

\* one iteration of "while True": the request, raise_for_status, extend, and
\* the test that ends the loop
SearchPage ==
    /\ search.pc = "request"
    /\ \E ok \in BOOLEAN :
        IF ~ok
        THEN search' = [search EXCEPT !.pc = "raised"]
        ELSE LET batch == Batch(search.total, search.page_limit, search.start_at,
                                search.max_results)
             IN IF search.start_at + search.max_results >= search.total
                THEN search' = [search EXCEPT !.all_issues = @ \o batch, !.pc = "returned"]
                ELSE search' = [search EXCEPT !.all_issues = @ \o batch,
                                              !.start_at = @ + search.max_results]
    /\ UNCHANGED <<collector_vars, cache_vars, extract_vars, retry_vars, outer_vars, race_vars,
                   convert_vars>>

NextSearch == SearchPage

SpecSearch == InitSearch /\ [][NextSearch]_vars

----------------------------------------------------------------------------
(* The record _extract_issue_worklogs builds from one worklog, for the       *)
(* comments and time fields a REST answer can carry.                         *)

\* nodes and blocks of a comment in Atlassian Document Format
TextNode(text) == PyDict([type |-> PyStr("text"), text |-> PyStr(text)])
MentionNode == PyDict([type |-> PyStr("mention"), attrs |-> PyDict([id |-> PyStr("u1")])])
Paragraph(nodes) == PyDict([type |-> PyStr("paragraph"), content |-> PyList(nodes)])
Document(blocks) == PyDict([type |-> PyStr("doc"), version |-> PyInt(1), content |-> blocks])

\* documents of the expected structure: the first block is a paragraph that
\* begins with a text node
ExpectedDocuments ==
    { Document(PyList(<<Paragraph(<<TextNode("first")>>)>>)),
      Document(PyList(<<Paragraph(<<TextNode("first"), TextNode("second")>>),
                        Paragraph(<<TextNode("third")>>)>>)),
      Document(PyList(<<Paragraph(<<TextNode("first"), MentionNode>>)>>)) }

\* documents of an unexpected structure: no content blocks; a first block that
\* is no mapping; a first block without content; a first node that is no
\* mapping; a first node without text; a content field that is no list
UnexpectedDocuments ==
    { Document(PyList(<< >>)),
      PyDict([type |-> PyStr("doc"), version |-> PyInt(1)]),
      Document(PyList(<<PyStr("first")>>)),
      Document(PyList(<<PyDict([type |-> PyStr("rule")])>>)),
      Document(PyList(<<Paragraph(<<PyStr("first")>>)>>)),
      Document(PyList(<<Paragraph(<<MentionNode>>)>>)),
      Document(PyList(<<Paragraph(<<MentionNode, TextNode("second")>>)>>)),
      Document(PyStr("first")),
      Document(PyInt(5)),
      Document(PyDict([type |-> PyStr("paragraph")])),
      Document(PyList(<<PyDict([type |-> PyStr("paragraph"), content |-> PyInt(5)])>>)),
      Document(PyList(<<PyDict([type |-> PyStr("paragraph"),
                                content |-> PyDict([text |-> PyStr("first")])])>>)) }

\* what 'comment' holds when it is present
Comments ==
    {None, PyStr(""), PyStr("fixed the login bug")} \cup ExpectedDocuments \cup UnexpectedDocuments

\* a duration as Jira writes it, "3h 30m": amounts with the units h and m
Duration(tokens) == [duration |-> tokens]
Durations == { Duration(<<[amount |-> 3, unit |-> "h"], [amount |-> 30, unit |-> "m"]>>),
               Duration(<<[amount |-> 45, unit |-> "m"]>>) }

\* the seconds of a duration
RECURSIVE SecondsOf(_)
SecondsOf(tokens) ==
    IF tokens = << >> THEN 0
    ELSE Head(tokens).amount * (IF Head(tokens).unit = "h" THEN 3600 ELSE 60)
            + SecondsOf(Tail(tokens))

\* what 'timeSpentSeconds' holds when it is present, for an entry of duration d
SecondsFields(d) ==
    { PyInt(SecondsOf(d.duration)), PyInt(0 - 60), PyFloat(1, 5), PyStr("12600"), None }

\* the parts a worklog may lack: its comment, its seconds, its id
OptionalField(name, values) == { << >> } \cup { name :> v : v \in values }

\* the worklogs of the answer
Worklogs ==
    { c @@ s @@ i @@ [author |-> "author", timeSpent |-> d] :
        c \in OptionalField("comment", Comments),
        s \in UNION { OptionalField("timeSpentSeconds", SecondsFields(d)) : d \in Durations },
        i \in OptionalField("id", {1}),
        d \in Durations }

InitConvert ==
    /\ OuterIdle
    /\ CollectorIdle
    /\ CacheIdle
    /\ ExtractIdle
    /\ RetryIdle
    /\ RaceIdle
    /\ SearchIdle
    /\ one_worklog \in Worklogs
    /\ record = [built |-> FALSE]

\* one iteration of "for worklog in worklogs"; an exception ends the key
Convert ==
    /\ record = [built |-> FALSE]
    /\ LET r == WorklogRecord(MkKey(PROJECT_KEY, 1), [issue_type |-> "Story"], one_worklog)
       IN record' = IF r.raised THEN [built |-> TRUE, raised |-> TRUE]
                    ELSE [built |-> TRUE, raised |-> FALSE, record |-> r.record]
    /\ UNCHANGED <<one_worklog, collector_vars, cache_vars, extract_vars, retry_vars, outer_vars,
                   race_vars, search_vars>>

NextConvert == Convert

SpecConvert == InitConvert /\ [][NextConvert]_vars

----------------------------------------------------------------------------
(* export_to_csv. A worklog carries the fields the claims are about; hours   *)
(* are counted in hundredths: [hundredths |-> 350] is the float 3.5.         *)

\* sys.float_info.mant_dig: the bits of the significand of a Python float
MANT_DIG == 53

\* n doubled until d <= n, d doubled until n < 2 * d: the quotient n / d
\* lies in [1, 2) afterwards and has the same significand as before
RECURSIVE ScaleUp(_, _)
ScaleUp(n, d) == IF n < d THEN ScaleUp(2 * n, d) ELSE n

RECURSIVE ScaleDown(_, _)
ScaleDown(n, d) == IF n >= 2 * d THEN ScaleDown(n, 2 * d) ELSE d

\* the binary expansion of r / d, r < d: what is left of r after 'bits' more
\* bits, and the last bit produced
RECURSIVE SignificandRemainder(_, _, _, _)
SignificandRemainder(r, d, last, bits) ==
    IF bits = 0 THEN [r |-> r, last |-> last]
    ELSE IF 2 * r >= d THEN SignificandRemainder(2 * r - d, d, 1, bits - 1)
    ELSE SignificandRemainder(2 * r, d, 0, bits - 1)

\* n / d for ints n >= 0, d > 0: the float nearest the quotient (ties to the
\* even significand). The float is kept as the quotient and the side it lies
\* on: err is -1 when the float is below n / d, 0 when equal, 1 when above.
truediv(n, d) ==
    IF n = 0 THEN [num |-> 0, den |-> d, err |-> 0]
    ELSE LET dd == ScaleDown(n, d)
             nn == ScaleUp(n, dd)
             rest == SignificandRemainder(nn - dd, dd, 1, MANT_DIG - 1)
         IN [num |-> n, den |-> d,
             err |-> IF rest.r = 0 THEN 0
                     ELSE IF 2 * rest.r < dd THEN -1
                     ELSE IF 2 * rest.r > dd THEN 1
                     ELSE IF rest.last = 1 THEN 1 ELSE -1]

\* round(x, 2): the float is rounded to the nearest hundredth by its exact
\* value, a float that is exactly halfway goes to the even hundredth. The
\* float differs from its quotient by far less than the quotient differs from
\* a halfway point it is not equal to.
round2(x) ==
    LET h == (100 * x.num) \div x.den
        rem == (100 * x.num) % x.den
    IN [hundredths |->
          IF 2 * rem < x.den THEN h
          ELSE IF 2 * rem > x.den THEN h + 1
          ELSE IF x.err < 0 THEN h
          ELSE IF x.err > 0 THEN h + 1
          ELSE IF h % 2 = 0 THEN h ELSE h + 1]

\* the dict of one writer.writerow
Row(worklog) ==
    [issue_key |-> worklog.issue_key,
     time_spent_hours |-> round2(truediv(worklog.time_spent_seconds, 3600))]

\* export_to_csv(worklogs, filename): the file it leaves
export_to_csv(worklogs) ==
    IF worklogs = << >> THEN NoFile
    ELSE [written |-> TRUE, rows |-> [i \in DOMAIN worklogs |-> Row(worklogs[i])]]

ExportedWorklog(seconds) ==
    [issue_key |-> MkKey(PROJECT_KEY, 1), time_spent_seconds |-> seconds]

InitExport ==
    /\ CollectorIdle
    /\ CacheIdle
    /\ ExtractIdle
    /\ RetryIdle
    /\ RaceIdle
    /\ SearchIdle
    /\ ConvertIdle
    /\ MainIdle
    /\ ConstructIdle
    /\ NamingIdle
    /\ EvictIdle
    /\ export_worklogs \in {<< >>} \cup { <<ExportedWorklog(s)>> : s \in 0..MaxSeconds }
    /\ csvfile = NoFile

ExportToCsv ==
    /\ csvfile = NoFile
    /\ csvfile' = export_to_csv(export_worklogs)
    /\ UNCHANGED <<export_worklogs, collector_vars, cache_vars, extract_vars, retry_vars,
                   race_vars, search_vars, convert_vars, main_vars, construct_vars,
                   naming_vars, evict_vars>>

NextExport == ExportToCsv

SpecExport == InitExport /\ [][NextExport]_vars

----------------------------------------------------------------------------
(* main: the extractor is constructed, the keys collected, the worklogs      *)
(* extracted, summarized and exported. The calls are taken by what they      *)
(* return or raise; collection and extraction are modelled step by step in   *)
(* SpecCollector and SpecExtract.                                            *)

\* the choices of --format
Formats == {"csv", "html", "excel", "both", "all"}

\* what _extract_issue_worklogs can make of a key: the call fails or not, and
\* the records it returns
KeyOutcomes == [failed : BOOLEAN, records : 0..1]

\* all_worklogs of extract_worklogs(issue_keys), when outcome[i] is what
\* becomes of issue_keys[i]
RECURSIVE Extracted(_, _)
Extracted(keys, outcome) ==
    IF keys = << >> THEN << >>
    ELSE LET n == Len(keys)
         IN Extracted(SubSeq(keys, 1, n - 1), outcome)
              \o [i \in 1..outcome[n].records |->
                    [issue_key |-> keys[n], time_spent_seconds |-> 3600]]

\* "if not worklogs: ... return" of the three exports and of generate_summary
NoWorklogs(worklogs) == worklogs = << >>

InitMain ==
    /\ CollectorIdle
    /\ CacheIdle
    /\ ExtractIdle
    /\ RetryIdle
    /\ RaceIdle
    /\ SearchIdle
    /\ ConvertIdle
    /\ ExportIdle
    /\ ConstructIdle
    /\ NamingIdle
    /\ EvictIdle
    /\ main \in [pc : {"construct"}, format : Formats, issue_keys : {<< >>},
                 worklogs : {<< >>}]
    /\ main_calls = << >>
    /\ output = {}

MainFrame ==
    UNCHANGED <<collector_vars, cache_vars, extract_vars, retry_vars, race_vars,
                search_vars, convert_vars, export_vars, construct_vars, naming_vars, evict_vars>>

\* extractor = JiraWorklogExtractor(...): validate_configuration may raise
MainConstruct ==
    /\ main.pc = "construct"
    /\ \E ok \in BOOLEAN :
          main' = [main EXCEPT !.pc = IF ok THEN "collect" ELSE "raised"]
    /\ UNCHANGED <<main_calls, output>>
    /\ MainFrame

\* Variant: main goes on with an empty list of keys
MainCollectGoesOn ==
    /\ main.pc = "collect"
    /\ main_calls' = Append(main_calls, "collect_all_related_issues")
    /\ \E ok \in BOOLEAN, n \in 0..MaxIssues :
          main' = IF ok THEN [main EXCEPT !.pc = "extract", !.issue_keys = ExtractKeys(n)]
                  ELSE [main EXCEPT !.pc = "raised"]
    /\ UNCHANGED output
    /\ MainFrame

\* issue_keys = extractor.collect_all_related_issues(); "if not issue_keys: return"
MainCollect ==
    /\ main.pc = "collect"
    /\ main_calls' = Append(main_calls, "collect_all_related_issues")
    /\ \E ok \in BOOLEAN, n \in 0..MaxIssues :
          main' = IF ~ok THEN [main EXCEPT !.pc = "raised"]
                  ELSE IF n = 0 THEN [main EXCEPT !.pc = "returned"]
                  ELSE [main EXCEPT !.pc = "extract", !.issue_keys = ExtractKeys(n)]
    /\ UNCHANGED output
    /\ MainFrame

\* worklogs = extractor.extract_worklogs(issue_keys): a key that fails is
\* reported and the call returns
MainExtract ==
    /\ main.pc = "extract"
    /\ main_calls' = Append(main_calls, "extract_worklogs")
    /\ \E outcome \in [DOMAIN main.issue_keys -> KeyOutcomes] :
          main' = [main EXCEPT !.pc = "summary",
                               !.worklogs = Extracted(main.issue_keys, outcome)]
    /\ UNCHANGED output
    /\ MainFrame

\* extractor.generate_summary(worklogs)
MainSummary ==
    /\ main.pc = "summary"
    /\ main_calls' = Append(main_calls, "generate_summary")
    /\ main' = [main EXCEPT !.pc = "csv"]
    /\ UNCHANGED output
    /\ MainFrame

\* if args.format in ['csv', 'both', 'all']: extractor.export_to_csv(...)
MainCsv ==
    /\ main.pc = "csv"
    /\ main' = [main EXCEPT !.pc = "html"]
    /\ IF main.format \in {"csv", "both", "all"}
       THEN /\ main_calls' = Append(main_calls, "export_to_csv")
            /\ output' = IF export_to_csv(main.worklogs) = NoFile THEN output
                         ELSE output \cup {"csv"}
       ELSE UNCHANGED <<main_calls, output>>
    /\ MainFrame

\* if args.format in ['html', 'both', 'all']: extractor.export_to_html(...)
MainHtml ==
    /\ main.pc = "html"
    /\ main' = [main EXCEPT !.pc = "excel"]
    /\ IF main.format \in {"html", "both", "all"}
       THEN /\ main_calls' = Append(main_calls, "export_to_html")
            /\ output' = IF NoWorklogs(main.worklogs) THEN output ELSE output \cup {"html"}
       ELSE UNCHANGED <<main_calls, output>>
    /\ MainFrame

\* if args.format in ['excel', 'all']: extractor.export_to_excel(...)
MainExcel ==
    /\ main.pc = "excel"
    /\ main' = [main EXCEPT !.pc = "done"]
    /\ IF main.format \in {"excel", "all"}
       THEN /\ main_calls' = Append(main_calls, "export_to_excel")
            /\ output' = IF NoWorklogs(main.worklogs) THEN output ELSE output \cup {"xlsx"}
       ELSE UNCHANGED <<main_calls, output>>
    /\ MainFrame

NextMain ==
    \/ MainConstruct
    \/ MainCollect
    \/ MainExtract
    \/ MainSummary
    \/ MainCsv
    \/ MainHtml
    \/ MainExcel

SpecMain == InitMain /\ [][NextMain]_vars

----------------------------------------------------------------------------
(* __init__ and validate_configuration: the attributes are set, then, unless *)
(* skip_validation, six requests are made for the five checks.              *)

\* the attributes __init__ assigns
Attributes(use, ttl) ==
    [jira_url |-> "jira_url", api_token |-> "api_token", project_key |-> PROJECT_KEY,
     erp_activity_filter |-> "erp_activity_filter", log_level |-> 1, use_cache |-> use,
     cache_ttl |-> ttl, logger |-> "logger", headers |-> "headers", session |-> "session",
     cache_dir |-> "cache_dir"]

\* the check each request of validate_configuration belongs to, in order:
\* the URL, /myself, /project/<key>, the search with the custom fields, the
\* two searches with "ERP Activity"
Checks == <<"url", "token", "project", "custom_fields", "filter_field", "filter_field">>

\* session.get raises a RequestException
Unreachable == [unreachable |-> TRUE]

\* session.get returns a response; body is what the check reads of its JSON
Response(status_code, body) == [status_code |-> status_code, body |-> body]

\* what the JSON of a successful answer can hold, per request
Bodies(i) ==
    IF Checks[i] = "custom_fields" THEN {"no_issues", "all_fields", "missing_fields"}
    ELSE IF Checks[i] = "filter_field" THEN {"total_0", "total_1"}
    ELSE {"json"}

\* the outcomes of request i
Requests(i) ==
    {Unreachable} \cup { Response(c, "error") : c \in {400, 401, 403, 404, 500} }
                  \cup { Response(200, b) : b \in Bodies(i) }

\* Variant: "if response.status_code > 400"
FailsAbove400(outcome) ==
    outcome = Unreachable \/ outcome.status_code > 400

\* the request makes validate_configuration raise: a RequestException, or
\* one of the tests of response.status_code (401, 403, 404, >= 400)
Fails(outcome) ==
    outcome = Unreachable \/ outcome.status_code >= 400

\* the warnings printed for an answer that passes
Warns(outcome) == outcome.body \in {"no_issues", "missing_fields", "total_0"}

InitConstruct ==
    /\ CollectorIdle
    /\ CacheIdle
    /\ ExtractIdle
    /\ RetryIdle
    /\ RaceIdle
    /\ SearchIdle
    /\ ConvertIdle
    /\ ExportIdle
    /\ MainIdle
    /\ NamingIdle
    /\ EvictIdle
    /\ extractor = NotConstructed
    /\ construction \in [pc : {"init"}, skip_validation : BOOLEAN, use_cache : BOOLEAN,
                         requests : {<< >>}, warnings : {0}]
    /\ searched = << >>

ConstructFrame ==
    UNCHANGED <<collector_vars, cache_vars, extract_vars, retry_vars, race_vars,
                search_vars, convert_vars, export_vars, main_vars, naming_vars, evict_vars>>

\* __init__ up to "if not skip_validation"
InitAttributes ==
    /\ construction.pc = "init"
    /\ IF construction.skip_validation
       THEN /\ construction' = [construction EXCEPT !.pc = "constructed"]
            /\ extractor' = Attributes(construction.use_cache, 3600)
       ELSE /\ construction' = [construction EXCEPT !.pc = "validate"]
            /\ UNCHANGED extractor
    /\ UNCHANGED searched
    /\ ConstructFrame

\* the next request of validate_configuration and the tests of its answer
ValidateRequest ==
    /\ construction.pc = "validate"
    /\ LET i == Len(construction.requests) + 1
       IN \E outcome \in Requests(i) :
            LET made == Append(construction.requests, [check |-> Checks[i], outcome |-> outcome])
            IN IF Fails(outcome)
               THEN /\ construction' = [construction EXCEPT !.pc = "raised", !.requests = made]
                    /\ UNCHANGED extractor
               ELSE /\ construction' =
                         [construction EXCEPT
                            !.pc = IF i = Len(Checks) THEN "constructed" ELSE "validate",
                            !.requests = made,
                            !.warnings = IF Warns(outcome) THEN @ + 1 ELSE @]
                    /\ extractor' = IF i = Len(Checks)
                                    THEN Attributes(construction.use_cache, 3600)
                                    ELSE extractor
    /\ UNCHANGED searched
    /\ ConstructFrame

\* the queries the tests search for
JqlStrings == {"project = TEST", "project = TEST AND status = Open"}

\* search_issues(jql) on the constructed extractor: it assigns no attribute
SearchIssues ==
    /\ construction.pc = "constructed"
    /\ Len(searched) < MaxSearches
    /\ \E jql \in JqlStrings : searched' = Append(searched, jql)
    /\ UNCHANGED <<extractor, construction>>
    /\ ConstructFrame

NextConstruct ==
    \/ InitAttributes
    \/ ValidateRequest
    \/ SearchIssues

SpecConstruct == InitConstruct /\ [][NextConstruct]_vars

----------------------------------------------------------------------------
(* _get_cache_key taken by itself: two calls and the names they return.      *)

\* the prefixes get_issue_metadata and get_worklogs pass
Prefixes == {"metadata", "worklogs"}

InitNaming ==
    /\ CollectorIdle
    /\ CacheIdle
    /\ ExtractIdle
    /\ RetryIdle
    /\ RaceIdle
    /\ SearchIdle
    /\ ConvertIdle
    /\ ExportIdle
    /\ MainIdle
    /\ ConstructIdle
    /\ EvictIdle
    /\ key_pairs \in [1..2 -> Prefixes \X AllKeys]
    /\ key_names = << >>

\* cache_key = self._get_cache_key(prefix, issue_key), twice
GetCacheKeys ==
    /\ key_names = << >>
    /\ key_names' = [i \in 1..2 |-> _get_cache_key(key_pairs[i][1], key_pairs[i][2])]
    /\ UNCHANGED <<key_pairs, collector_vars, cache_vars, extract_vars, retry_vars,
                   race_vars, search_vars, convert_vars, export_vars, main_vars,
                   construct_vars, evict_vars>>

NextNaming == GetCacheKeys

SpecNaming == InitNaming /\ [][NextNaming]_vars

----------------------------------------------------------------------------
(* _get_from_cache and _save_to_cache of the same entry in two threads, one  *)
(* file operation per step. The read: exists, stat, then unlink or open and  *)
(* load. The write: open 'wb', dump, close. Where the file is still open for *)
(* writing, unlink removes the name and the writer goes on writing to a file *)
(* without a name (POSIX), or raises PermissionError (Windows).              *)

\* the entry the two threads work on
EvictKey == _get_cache_key("worklogs", MkKey(PROJECT_KEY, 1))

\* the thread in _get_from_cache: found_expired records "file_age > cache_ttl"
Getter == [pc |-> "exists", ret |-> None, found_expired |-> FALSE]

\* the thread in _save_to_cache(cache_key, data): named says that the file it
\* has open still is the one of the directory, written_at when it wrote last
Saver(data) == [pc |-> "open", data |-> data, named |-> TRUE, written_at |-> 0]

InitEvict ==
    /\ CollectorIdle
    /\ ExtractIdle
    /\ RetryIdle
    /\ RaceIdle
    /\ SearchIdle
    /\ ConvertIdle
    /\ ExportIdle
    /\ MainIdle
    /\ ConstructIdle
    /\ NamingIdle
    /\ use_cache \in BOOLEAN
    /\ cache_ttl \in 0..MaxTtl
    /\ now \in 0..MaxTime
    /\ files \in { << >> } \cup { WriteFile(<< >>, EvictKey, d, 0) : d \in CacheData }
    /\ op = NoOp
    /\ entry_threads \in [getter : {Getter}, saver : { Saver(d) : d \in CacheData },
                    posix : BOOLEAN]

EvictFrame ==
    UNCHANGED <<use_cache, cache_ttl, now, op, collector_vars, extract_vars, retry_vars,
                race_vars, search_vars, convert_vars, export_vars, main_vars,
                construct_vars, naming_vars>>

\* return None
GetReturnsNone(w) == [w EXCEPT !.getter.pc = "returned", !.getter.ret = None]

\* if not self.use_cache: return None; if not cache_file.exists(): return None
GetExists ==
    /\ entry_threads.getter.pc = "exists"
    /\ entry_threads' = IF use_cache /\ Exists(files, EvictKey)
                        THEN [entry_threads EXCEPT !.getter.pc = "stat"]
                        ELSE GetReturnsNone(entry_threads)
    /\ UNCHANGED files
    /\ EvictFrame

\* file_age = time.time() - cache_file.stat().st_mtime; if file_age > self.cache_ttl
GetStat ==
    /\ entry_threads.getter.pc = "stat"
    /\ entry_threads' = IF ~Exists(files, EvictKey) THEN GetReturnsNone(entry_threads)
                        ELSE IF Expired(now - files[EvictKey].mtime, cache_ttl)
                        THEN [entry_threads EXCEPT !.getter.pc = "unlink", !.getter.found_expired = TRUE]
                        ELSE [entry_threads EXCEPT !.getter.pc = "load"]
    /\ UNCHANGED files
    /\ EvictFrame

\* cache_file.unlink(); return None. A file that another thread has open for
\* writing loses its name, or, where that is refused, unlink raises and the
\* except clause returns None
GetUnlink ==
    /\ entry_threads.getter.pc = "unlink"
    /\ IF ~Exists(files, EvictKey)
       THEN /\ entry_threads' = GetReturnsNone(entry_threads)
            /\ UNCHANGED files
       ELSE IF entry_threads.saver.pc \in {"dump", "close"} /\ entry_threads.saver.named
       THEN IF entry_threads.posix
            THEN /\ entry_threads' = [GetReturnsNone(entry_threads) EXCEPT !.saver.named = FALSE]
                 /\ files' = Unlink(files, EvictKey)
            ELSE /\ entry_threads' = GetReturnsNone(entry_threads)
                 /\ UNCHANGED files
       ELSE /\ entry_threads' = GetReturnsNone(entry_threads)
            /\ files' = Unlink(files, EvictKey)
    /\ EvictFrame

\* with open(cache_file, 'rb') as f: return pickle.load(f)
GetLoad ==
    /\ entry_threads.getter.pc = "load"
    /\ entry_threads' = IF ~Exists(files, EvictKey) \/ files[EvictKey].data = Corrupt
                        THEN GetReturnsNone(entry_threads)
                        ELSE [entry_threads EXCEPT !.getter.pc = "returned",
                                             !.getter.ret = files[EvictKey].data]
    /\ UNCHANGED files
    /\ EvictFrame

\* if not self.use_cache: return; open(cache_file, 'wb'): the file is made or
\* emptied, an empty file is one pickle.load cannot read
SaveOpen ==
    /\ entry_threads.saver.pc = "open"
    /\ IF use_cache
       THEN /\ entry_threads' = [entry_threads EXCEPT !.saver.pc = "dump", !.saver.written_at = now]
            /\ files' = WriteFile(files, EvictKey, Corrupt, now)
       ELSE /\ entry_threads' = [entry_threads EXCEPT !.saver.pc = "returned"]
            /\ UNCHANGED files
    /\ EvictFrame

\* pickle.dump(data, f)
SaveDump ==
    /\ entry_threads.saver.pc = "dump"
    /\ entry_threads' = [entry_threads EXCEPT !.saver.pc = "close", !.saver.written_at = now]
    /\ files' = IF entry_threads.saver.named
                THEN WriteFile(files, EvictKey, entry_threads.saver.data, now)
                ELSE files
    /\ EvictFrame

\* the end of the with block
SaveClose ==
    /\ entry_threads.saver.pc = "close"
    /\ entry_threads' = [entry_threads EXCEPT !.saver.pc = "returned"]
    /\ UNCHANGED files
    /\ EvictFrame

NextEvict ==
    \/ Tick
    \/ GetExists
    \/ GetStat
    \/ GetUnlink
    \/ GetLoad
    \/ SaveOpen
    \/ SaveDump
    \/ SaveClose

SpecEvict == InitEvict /\ [][NextEvict]_vars

\* The collector keeps running until it returns or raises.
SpecCollectorFair == SpecCollector /\ WF_vars(NextCollector)

----------------------------------------------------------------------------
(* Claims about collect_all_related_issues *)

\* the keys at the other end of a link of key a, inward or outward
OtherEnds(d, a) ==
    { e[2] : e \in { x \in d.links : x[1] = a } } \cup { e[1] : e \in { x \in d.links : x[2] = a } }

\* Seed plus the children of every seed epic
ExpectedA(d) == d.seed \cup UNION { d.children[e] : e \in d.seed \cap d.epics }

\* the linked keys of A that pass the project filter
ExpectedL(d) == { k \in UNION { OtherEnds(d, a) : a \in ExpectedA(d) } : PassesProjectFilter(k) }

\* the subtasks of A and L
ExpectedT(d) == { e[2] : e \in { x \in d.subtasks : x[1] \in ExpectedA(d) \cup ExpectedL(d) } }

Range(seq) == { seq[i] : i \in 1..Len(seq) }

\* the project part of a key: what stands before its dash
ProjectOf(key) == SubSeq(key, 1, (CHOOSE i \in 1..Len(key) : key[i] = 45) - 1)

C4_LinkPhaseAddsOnlyProjectKeys ==
    phase = "link" =>
        \A k \in BagToSet(all_issue_keys) \ initial_keys : ProjectOf(k) = PROJECT_KEY

\* C5: the returned list holds no key twice.
C5_NoDuplicates ==
    status = "done" =>
        \A i, j \in 1..Len(result.keys) : i # j => result.keys[i] # result.keys[j]

\* C5 witness: a returned key was reachable on two paths, as a child of an epic
\* and also as a direct match or as a link of that epic
C5_Witness ==
    /\ status = "done"
    /\ \E e \in remote.epics : \E k \in remote.children[e] :
          /\ k \in remote.seed \/ k \in OtherEnds(remote, e)
          /\ k \in Range(result.keys)

\* C7: once a remote call has failed the collector has raised, it returns no
\* list, and no call of a later phase has been issued.
C7_FailureIsFatal ==
    failed =>
        /\ status = "raised"
        /\ result = NoResult
        /\ phase = "seed" => \A k \in AllKeys : n_children[k] = 0 /\ n_links[k] = 0 /\ n_subtasks[k] = 0
        /\ phase = "epic" => \A k \in AllKeys : n_links[k] = 0 /\ n_subtasks[k] = 0
        /\ phase = "link" => \A k \in AllKeys : n_subtasks[k] = 0

\* C7 witness: a link query failed after keys had been collected from the
\* seed search and an epic
C7_Witness ==
    /\ failed
    /\ phase = "link"
    /\ \E e \in AllKeys : n_children[e] = 1
    /\ all_issue_keys # EmptyBag

\* C8: links are queried at most once per key and only for keys of A (the
\* snapshot of the link phase), subtasks at most once per key and only for
\* keys of A and L (the snapshot of the subtask phase); a completed run has
\* queried each of them exactly once.
C8_SingleHop ==
    /\ initial_keys \subseteq ExpectedA(remote)
    /\ initial_keys_for_subtasks \subseteq ExpectedA(remote) \cup ExpectedL(remote)
    /\ \A k \in AllKeys :
        /\ n_links[k] <= 1
        /\ n_subtasks[k] <= 1
        /\ n_links[k] = 1 => k \in initial_keys
        /\ n_subtasks[k] = 1 => k \in initial_keys_for_subtasks
    /\ status = "done" =>
        /\ initial_keys = ExpectedA(remote)
        /\ initial_keys_for_subtasks = ExpectedA(remote) \cup ExpectedL(remote)
        /\ \A k \in initial_keys : n_links[k] = 1
        /\ \A k \in initial_keys_for_subtasks : n_subtasks[k] = 1

\* C8 witness: a key found by the link phase has a link to a further key of
\* the project, which was not followed
C8_Witness ==
    /\ status = "done"
    /\ \E k \in ExpectedL(remote) \ ExpectedA(remote) :
          \E j \in OtherEnds(remote, k) : PassesProjectFilter(j) /\ j \notin Range(result.keys)

\* C9: a children search is issued only after the seed search, a link query
\* only after every epic has been expanded, a subtask query only after every
\* key of the link snapshot has been queried for links.
C9_PhasesInOrder ==
    /\ (\E k \in AllKeys : n_children[k] > 0) => n_search = 1 /\ ~(failed /\ phase = "seed")
    /\ (\E k \in AllKeys : n_links[k] > 0) =>
          /\ \A e \in remote.epics : n_children[e] = 1
          /\ ~(failed /\ phase = "epic")
    /\ (\E k \in AllKeys : n_subtasks[k] > 0) =>
          /\ \A a \in ExpectedA(remote) : n_links[a] = 1
          /\ ~(failed /\ phase = "link")

\* C9 witness: a run through all four phases with two epics
C9_Witness ==
    /\ status = "done"
    /\ Cardinality(remote.epics) = 2
    /\ \E k \in AllKeys : n_links[k] = 1
    /\ \E k \in AllKeys : n_subtasks[k] = 1

\* the links of the dataset form a cycle, or a subtask links back to its parent
Cyclic(d) ==
    \/ \E e \in d.links : <<e[2], e[1]>> \in d.links
    \/ \E e \in d.subtasks : e[1] \in OtherEnds(d, e[2])

\* C10: the collector stops, and a run that returns has issued one seed
\* search, one children search per seed epic, one link query per key of A and
\* one subtask query per key of A and L.
C10_Terminates ==
    /\ <>(status # "running")
    /\ [](status = "done" =>
            /\ n_search = 1
            /\ \A k \in AllKeys :
                /\ n_children[k] = IF k \in remote.epics THEN 1 ELSE 0
                /\ n_links[k] = IF k \in ExpectedA(remote) THEN 1 ELSE 0
                /\ n_subtasks[k] = IF k \in ExpectedA(remote) \cup ExpectedL(remote) THEN 1 ELSE 0)

\* C10 witness: a dataset with a cycle has been collected
C10_Witness ==
    /\ status = "done"
    /\ Cyclic(remote)
    /\ Len(result.keys) >= 2

\* C11: the returned list is in strictly ascending order of the key strings
\* and holds exactly the keys the dataset determines, each once: it is the one
\* ascending list of A, L and T, whatever order the epics and the keys of the
\* two snapshots were iterated in, so any two runs on a dataset return it.
C11_SortedAndDeterministic ==
    status = "done" =>
        /\ \A i \in 1..(Len(result.keys) - 1) : StrLess(result.keys[i], result.keys[i + 1])
        /\ Len(result.keys) =
              Cardinality(ExpectedA(remote) \cup ExpectedL(remote) \cup ExpectedT(remote))
        /\ \A k \in ExpectedA(remote) \cup ExpectedL(remote) \cup ExpectedT(remote) :
              \E i \in 1..Len(result.keys) : result.keys[i] = k

\* C11 witness: a run has returned three keys or more, and both snapshots held
\* two keys or more, so the loops had more than one order to run in
C11_Witness ==
    /\ status = "done"
    /\ Len(result.keys) >= 3
    /\ Cardinality(initial_keys) >= 2
    /\ Cardinality(initial_keys_for_subtasks) >= 2

----------------------------------------------------------------------------
(* Claims about the cache *)

\* C3: with the cache enabled and no file operation failing, a read of an
\* entry older than cache_ttl is a miss and deletes the file, a read of a
\* readable entry of age at most cache_ttl returns its value and leaves the
\* directory alone; no read returns an entry older than cache_ttl, and only
\* the read of an expired entry deletes a file (a file that goes otherwise
\* has been removed by someone else while it was read).
C3_TtlRespected ==
    [][ /\ \A k \in DOMAIN files :
              k \notin DOMAIN files' =>
                  /\ op'.name = "get"
                  /\ op'.key = k
                  /\ IF op'.unlinked THEN now - files[k].mtime > cache_ttl
                                     ELSE op'.fault = "vanish"
        /\ (op'.name = "get" /\ op'.key \in DOMAIN files) =>
              LET entry == files[op'.key]
                  age == now - entry.mtime
              IN /\ age > cache_ttl => op'.ret = None
                 /\ (age > cache_ttl /\ use_cache /\ op'.fault = "none") =>
                        (op'.key \notin DOMAIN files' /\ op'.unlinked)
                 /\ (age <= cache_ttl /\ use_cache /\ op'.fault = "none"
                        /\ entry.data # Corrupt) =>
                        (op'.ret = entry.data /\ files' = files)
      ]_vars

\* C3 witness: a read has found an entry expired, reported a miss and deleted it
C3_Witness ==
    /\ op.name = "get"
    /\ op.unlinked
    /\ op.ret = None
    /\ op.key \notin DOMAIN files
    /\ now > cache_ttl

\* C15: a read of an entry whose file cannot be unpickled, or in which stat,
\* unlink, open or pickle.load fails when the read comes to it, or whose file
\* has gone since exists() found it, returns None and does not raise
\* (exists() itself is taken to succeed, it is none of these steps).
C15_ReadFailureIsMiss ==
    [][ (op'.name = "get" /\ use_cache /\ op'.key \in DOMAIN files
                /\ op'.fault # "exists") =>
            LET entry == files[op'.key]
                expired == now - entry.mtime > cache_ttl
                fails == \/ op'.fault \in {"vanish", "stat"}
                         \/ op'.fault = "unlink" /\ expired
                         \/ op'.fault \in {"open", "load"} /\ ~expired
                         \/ entry.data = Corrupt
            IN fails => (op'.ret = None /\ ~op'.raised)
      ]_vars

\* C15 witness: pickle.load has failed on an entry that is readable and not
\* expired; the read has reported a miss and the file is still there
C15_Witness ==
    /\ use_cache
    /\ op.name = "get"
    /\ op.fault = "load"
    /\ op.ret = None
    /\ ~op.raised
    /\ op.key \in DOMAIN files
    /\ files[op.key].data \in CacheData
    /\ now - files[op.key].mtime <= cache_ttl

\* C19: a write that succeeds leaves the entry holding the written value,
\* whatever it held before, and a read of it at any time up to cache_ttl later
\* returns that value; an entry's content changes only by a write to its key,
\* and a read of a readable entry within cache_ttl returns the content, that is
\* the value of the latest write.
C19_ReadReturnsLatestWrite ==
    [][ /\ (op'.name = "save" /\ use_cache /\ op'.fault = "none") =>
              /\ op'.key \in DOMAIN files'
              /\ files'[op'.key] = [data |-> op'.data, mtime |-> now]
              /\ \A t \in now..(now + cache_ttl) :
                    GetFromCache(use_cache, cache_ttl, files', t, op'.key, "none").ret
                        = op'.data
        /\ \A k \in DOMAIN files \cap DOMAIN files' :
              files'[k] # files[k] => (op'.name = "save" /\ op'.key = k)
        /\ ( /\ op'.name = "get" /\ use_cache /\ op'.fault = "none"
             /\ op'.key \in DOMAIN files
             /\ now - files[op'.key].mtime <= cache_ttl
             /\ files[op'.key].data # Corrupt ) =>
                op'.ret = files[op'.key].data
      ]_vars

\* C19 witness: a second write has replaced a different value under the key
C19_Witness ==
    /\ use_cache
    /\ op.name = "save"
    /\ op.fault = "none"
    /\ op.replaced \in CacheData
    /\ op.replaced # op.data
    /\ files[op.key].data = op.data

\* what the remote service answers to the call named in op', and the value
\* the call makes of a good answer
FetchAnswer(name) ==
    IF name = "get_worklogs" THEN jira[FetchKey].worklogs ELSE jira[FetchKey].metadata
FetchedValue(name) ==
    IF name = "get_worklogs" THEN PyList(FetchAnswer(name).json) ELSE FetchAnswer(name).json

\* C16: when get_worklogs or get_issue_metadata has fetched a good answer and
\* its cache write fails (open or pickle.dump raises), the call does not raise
\* and returns the value it has just fetched.
C16_WriteFailureIgnored ==
    ( /\ op.name \in {"get_worklogs", "get_issue_metadata"}
      /\ use_cache
      /\ op.wfault # "none"
      /\ op.fetched = 1
      /\ FetchAnswer(op.name).status_code = 200 ) =>
        /\ ~op.raised
        /\ op.ret = FetchedValue(op.name)

\* C16 witness: pickle.dump failed in get_worklogs, the worklog fetched is
\* returned all the same and the cache file is left unreadable
C16_Witness ==
    /\ op.name = "get_worklogs"
    /\ use_cache
    /\ op.wfault = "dump"
    /\ op.fetched = 1
    /\ ~op.raised
    /\ op.ret = PyList(<<GoodWorklog(1)>>)
    /\ files[op.key].data = Corrupt

\* C18: a call that finds a readable entry of age at most cache_ttl returns
\* the entry's value, also an empty list, makes no remote call and no cache
\* write and leaves the directory alone; a call whose cache read is a miss
\* makes one remote call, and with a good answer it calls _save_to_cache once,
\* which stores the fetched value under the key, and returns that value.
C18_CacheOrFetch ==
    [][ op'.name \in {"get_worklogs", "get_issue_metadata"} =>
          LET key == op'.key
              readable == /\ use_cache
                          /\ key \in DOMAIN files
                          /\ now - files[key].mtime <= cache_ttl
                          /\ files[key].data # Corrupt
                          /\ op'.rfault = "none"
          IN IF readable
             THEN /\ op'.hit
                  /\ op'.ret = files[key].data
                  /\ op'.fetched = 0
                  /\ op'.saves = 0
                  /\ ~op'.raised
                  /\ files' = files
             ELSE (op'.rfault # "exists" \/ ~use_cache) =>
                    /\ ~op'.hit
                    /\ op'.fetched = 1
                    /\ IF FetchAnswer(op'.name).status_code = 200
                       THEN /\ op'.ret = FetchedValue(op'.name)
                            /\ op'.saves = 1
                            /\ (use_cache /\ op'.wfault = "none") =>
                                  /\ key \in DOMAIN files'
                                  /\ files'[key] = [data |-> FetchedValue(op'.name),
                                                    mtime |-> now]
                       ELSE /\ op'.raised
                            /\ op'.saves = 0
      ]_vars

\* C18 witness: get_worklogs has returned a cached empty list without a remote
\* call, while the remote side holds a worklog by now
C18_Witness ==
    /\ op.name = "get_worklogs"
    /\ op.hit
    /\ op.ret = PyList(<< >>)
    /\ op.fetched = 0
    /\ jira[FetchKey].worklogs = OkResponse(<<GoodWorklog(1)>>)

----------------------------------------------------------------------------
(* Claims about extract_worklogs *)

\* the key's processing raises: its metadata call fails, its worklog call
\* fails, or one of its worklogs cannot be converted
KeyFails(data, key) ==
    \/ data[key].metadata.status_code # 200
    \/ data[key].worklogs.status_code # 200
    \/ \E i \in DOMAIN data[key].worklogs.json : "id" \notin DOMAIN data[key].worklogs.json[i]

\* the worklog ids of the returned records of a key, in order
ReturnedIds(key) ==
    LET OfKey(r) == r.issue_key = key
        mine == SelectSeq(all_worklogs, OfKey)
    IN [i \in 1..Len(mine) |-> mine[i].worklog_id]

\* C2 (as claimed): when exactly one key fails, extract_worklogs returns, and
\* its result holds every record of the other keys and none of the failing key.
C2_FaultIsolation ==
    ( /\ ex_status \in {"returned", "raised"}
      /\ Cardinality({ k \in DOMAIN jira : KeyFails(jira, k) }) = 1 ) =>
        /\ ex_status = "returned"
        /\ \A k \in DOMAIN jira :
              IF KeyFails(jira, k)
              THEN ReturnedIds(k) = << >>
              ELSE ReturnedIds(k) = [i \in 1..Len(jira[k].worklogs.json) |-> jira[k].worklogs.json[i].id]

\* C6 (as claimed): a key whose processing raised contributes no record.
C6_FailedKeyContributesNothing ==
    ex_status = "returned" =>
        \A i \in DOMAIN tasks :
            tasks[i].errored => \A j \in 1..Len(all_worklogs) : all_worklogs[j].issue_key # tasks[i].key

\* the worklog ids of the records _extract_issue_worklogs makes of the remote
\* data of a key: none when a fetch fails, else those of the worklogs that
\* stand before the first one that cannot be converted
RECURSIVE ConvertedIds(_)
ConvertedIds(worklogs) ==
    IF worklogs = << >> \/ "id" \notin DOMAIN Head(worklogs) THEN << >>
    ELSE <<Head(worklogs).id>> \o ConvertedIds(Tail(worklogs))

RecordIdsOf(data, key) ==
    IF data[key].metadata.status_code # 200 \/ data[key].worklogs.status_code # 200
    THEN << >>
    ELSE ConvertedIds(data[key].worklogs.json)

\* the remote calls a task has made when every cache read is a miss: the
\* metadata call once it has passed that step, the worklog call after it
CallsWhenAllMiss(task) ==
    IF task.pc \in {"queued", "meta"} THEN 0
    ELSE IF task.pc = "worklogs" THEN 1
    ELSE IF task.pc = "convert" THEN 2
    ELSE IF jira[task.key].metadata.status_code # 200 THEN 1 ELSE 2

----------------------------------------------------------------------------
(* Claims about the retry policy *)

\* the attempt ended in an answer of a whitelisted status
IsWhitelisted(outcome) ==
    outcome.kind = "status" /\ outcome.status_code \in status_forcelist

\* the attempt ended in a failure answer that is not transient:
\* malformed request, authentication, permission, not found
IsPermanent(outcome) ==
    outcome.kind = "status" /\ outcome.status_code \in {400, 401, 403, 404}

\* attempt i of the call was followed, or is about to be followed, by another
Retried(i) == i < Len(attempts) \/ call = "pending"

\* C12 (as claimed): an attempt is retried only when it ended in a status of
\* the whitelist 429, 500, 502, 503, 504.
C12_RetriedOnlyOnWhitelist ==
    \A i \in 1..Len(attempts) : Retried(i) => IsWhitelisted(attempts[i])

\* C12 (amended): an attempt is retried only when it ended in a whitelisted
\* status, in a 413, 429 or 503 answer that carries a Retry-After header, or
\* without an answer (a connection error, or a read error of a GET or POST),
\* and an answer is retried for GET and POST only; a 400, 401, 403 or 404
\* answer is never retried: it ends the call, which raises.
C12_RetriedOnlyOnTransient ==
    \A i \in 1..Len(attempts) :
        /\ Retried(i) =>
              \/ attempts[i] = ConnectError
              \/ /\ method \in allowed_methods
                 /\ \/ IsWhitelisted(attempts[i])
                    \/ attempts[i] = ReadError
                    \/ /\ attempts[i].kind = "status"
                       /\ attempts[i].has_retry_after
                       /\ attempts[i].status_code \in RETRY_AFTER_STATUS_CODES
        /\ IsPermanent(attempts[i]) =>
              /\ i = Len(attempts)
              /\ call \in {"response", "raised"}

\* C12 witness: a GET was answered 503, was sent again and answered 401,
\* and the call has raised after these two attempts
C12_Witness ==
    /\ method = "GET"
    /\ attempts = <<Answer(503, FALSE), Answer(401, FALSE)>>
    /\ call = "raised"

\* the attempt ended in a transient failure: a whitelisted status or no answer
IsTransient(outcome) ==
    IsWhitelisted(outcome) \/ outcome \in {ConnectError, ReadError}

\* C13: a call makes at most 1 + total attempts; a call whose attempts all
\* ended in a transient failure is handed to the caller as a failure, which
\* raise_for_status raises, and is never returned as a result; for a GET or
\* POST (every call of the extractor is a GET) that happens only after
\* 1 + total attempts.
C13_BoundedAttemptsThenError ==
    /\ Len(attempts) <= 1 + total
    /\ ( /\ call # "pending"
         /\ \A i \in 1..Len(attempts) : IsTransient(attempts[i]) ) =>
            /\ call \in {"response", "raised"}
            /\ call = "response" => raise_for_status(attempts[Len(attempts)])
            /\ method \in allowed_methods => Len(attempts) = 1 + total

\* C13 witness: four attempts of a GET were answered 503, 500, 429 and 504,
\* and the call has raised
C13_Witness ==
    /\ method = "GET"
    /\ attempts = <<Answer(503, FALSE), Answer(500, FALSE), Answer(429, FALSE),
                    Answer(504, FALSE)>>
    /\ call = "raised"

\* the methods that are not idempotent (RFC 7231, 4.2.2); PUT and GET are
NonIdempotentMethods == {"POST"}

\* C14 (as claimed): a call made with a non-idempotent method is attempted
\* at most once.
C14_NonIdempotentNeverRetried ==
    method \in NonIdempotentMethods => Len(attempts) <= 1

----------------------------------------------------------------------------
(* Claims about concurrent cache operations *)

\* what a read of the file from its start can return
RECURSIVE Stored(_, _)
Stored(content, n) ==
    IF n > Len(content) \/ content[n] = Hole THEN { None }
    ELSE IF content[n].last THEN Load(SubSeq(content, 1, n))
    ELSE Stored(content, n + 1)

\* the writers that have closed the file, and the one that closed it last
ClosedWriters == { t \in DOMAIN threads : threads[t].closed_at > 0 }
LastWriter == CHOOSE t \in ClosedWriters :
                  \A u \in ClosedWriters : threads[u].closed_at <= threads[t].closed_at

\* C20 (as claimed): once all threads are done, a read of the file returns
\* the value of the writer that wrote last; and no read returns anything but
\* None or a value that was written whole.
C20_LastWriterWinsNoTornRead ==
    /\ \A t \in DOMAIN threads :
          (threads[t].role = "reader" /\ threads[t].pc = "done") =>
              "torn" \notin DOMAIN threads[t].ret
    /\ ( /\ \A t \in DOMAIN threads : threads[t].pc = "done"
         /\ ClosedWriters # {} ) =>
            Stored(cache_file.content, 1) = { [value |-> threads[LastWriter].data[1].of] }

----------------------------------------------------------------------------
(* Claims about the subtask phase and the epic expansion of the collector *)

\* C25: the snapshot of the subtask phase is the snapshot of the link phase
\* plus the keys the link phase added, and every subtask of a key of that
\* snapshot that has been queried is in the key set, in or out of the
\* configured project; a completed run returns them all.
C25_SubtasksAddedUnconditionally ==
    /\ phase \in {"subtask", "return"} =>
          initial_keys_for_subtasks =
              initial_keys \cup { l \in UNION { get_linked_issues(remote, k) : k \in initial_keys } :
                                    PassesProjectFilter(l) }
    /\ \A k \in initial_keys_for_subtasks \ subtasks_left :
          \A t \in get_subtasks(remote, k) : BagIn(t, all_issue_keys)
    /\ status = "done" =>
          /\ subtasks_left = {}
          /\ \A k \in initial_keys_for_subtasks : get_subtasks(remote, k) \subseteq Range(result.keys)

\* C25 witness: a key added by the link phase has a subtask outside the
\* configured project, and the subtask is returned
C25_Witness ==
    /\ status = "done"
    /\ \E k \in initial_keys_for_subtasks \ initial_keys :
          \E t \in get_subtasks(remote, k) :
              ~PassesProjectFilter(t) /\ t \in Range(result.keys)

----------------------------------------------------------------------------
(* Claims about the worker pool of extract_worklogs *)

\* how far a task has come
PcRank(pc) ==
    CASE pc = "queued" -> 0
      [] pc \in {"meta", "meta_read", "meta_fetch"} -> 1
      [] pc \in {"worklogs", "worklogs_fetch"} -> 2
      [] pc = "convert" -> 3
      [] pc = "finished" -> 4

\* C21: once the tasks are submitted there is one task per key passed in, in
\* the order of the keys; a task never goes back, so no key is taken up a
\* second time; at no time do more than max_workers tasks run; and when
\* extract_worklogs returns every task has finished.
C21_OneTaskPerKeyBoundedPool ==
    [][ /\ ex_status' # "called" =>
            /\ Len(tasks') = Len(issue_keys)
            /\ \A i \in DOMAIN tasks' : tasks'[i].key = issue_keys[i]
        /\ Cardinality(Running(tasks')) <= max_workers
        /\ \A i \in DOMAIN tasks :
            /\ i \in DOMAIN tasks'
            /\ PcRank(tasks'[i].pc) >= PcRank(tasks[i].pc)
        /\ ex_status' = "returned" => \A i \in DOMAIN tasks' : tasks'[i].pc = "finished"
      ]_vars

\* C21 witness: every worker is busy and a task waits in the queue
C21_Witness ==
    /\ ex_status = "running"
    /\ Cardinality(Running(tasks)) = max_workers
    /\ \E i \in DOMAIN tasks : tasks[i].pc = "queued"

\* the number of times r stands in seq
CountIn(seq, r) == Cardinality({ i \in 1..Len(seq) : seq[i] = r })

\* the records of the time entries of the keys that are processed without error
RecordsOfSuccessfulKeys ==
    { <<i, j>> \in (1..Len(issue_keys)) \X (1..MaxWorklogs + 1) :
        /\ ~KeyFails(jira, issue_keys[i])
        /\ j <= Len(jira[issue_keys[i]].worklogs.json) }

RecordOfEntry(e) ==
    WorklogRecord(issue_keys[e[1]], jira[issue_keys[e[1]]].metadata.json,
                  jira[issue_keys[e[1]]].worklogs.json[e[2]]).record

\* C22 (as claimed): when extract_worklogs returns every task has finished,
\* and the returned list holds, whatever the interleaving was, one record per
\* time entry of each key processed without error, and no other record.
C22_ResultIsRecordsOfSuccessfulKeys ==
    ex_status = "returned" =>
        /\ \A i \in DOMAIN tasks : tasks[i].pc = "finished"
        /\ \A r \in Range(all_worklogs) \cup { RecordOfEntry(e) : e \in RecordsOfSuccessfulKeys } :
              CountIn(all_worklogs, r) =
                  Cardinality({ e \in RecordsOfSuccessfulKeys : RecordOfEntry(e) = r })

\* what a successful remote call answers for a key: its metadata, its worklogs
\* (no value when the call fails)
MetadataOf(key) ==
    IF jira[key].metadata.status_code = 200 THEN { jira[key].metadata.json } ELSE {}
WorklogsOf(key) ==
    IF jira[key].worklogs.status_code = 200 THEN { PyList(jira[key].worklogs.json) } ELSE {}

\* the values the remote service holds for a cache key
RemoteValue(cache_key) ==
    UNION ( { MetadataOf(k) : k \in { x \in DOMAIN jira : _get_cache_key("metadata", x) = cache_key } }
            \cup { WorklogsOf(k) : k \in { x \in DOMAIN jira : _get_cache_key("worklogs", x) = cache_key } } )

\* no key stands twice in the list
DuplicateFree(keys) == \A i, j \in 1..Len(keys) : i # j => keys[i] # keys[j]

\* the remote calls a task can have made at its position at most: one
\* metadata call, then one worklog call
CallsAtMost(task) ==
    IF task.pc \in {"queued", "meta", "meta_read", "meta_fetch"} THEN 0
    ELSE IF task.pc \in {"worklogs", "worklogs_fetch"} THEN 1
    ELSE 2

\* C23: a metadata slot and a cache entry belong to one key: what stands in
\* them is what the remote service holds for that key, whichever task wrote
\* it, and what a task has read is the data of its own key. With a
\* duplicate-free key list a key's metadata and a key's worklogs are fetched
\* at most once. Tasks of the same key may each fetch and write; they write
\* the same value, end alike, and the call goes on until it returns.
C23_SlotsAndEntriesPerKey ==
    /\ \A k \in DOMAIN issue_metadata_cache :
          k \in DOMAIN jira /\ issue_metadata_cache[k] \in MetadataOf(k)
    /\ \A ck \in DOMAIN files :
          files[ck].data \in RemoteValue(ck)
    /\ \A i \in DOMAIN tasks :
          /\ tasks[i].metadata \in {None} \cup MetadataOf(tasks[i].key)
          /\ tasks[i].pc = "convert" => tasks[i].worklogs \in WorklogsOf(tasks[i].key)
          /\ tasks[i].calls <= CallsAtMost(tasks[i])
    /\ DuplicateFree(issue_keys) =>
          \A i, j \in DOMAIN tasks : i # j => tasks[i].key # tasks[j].key
    /\ ex_status # "raised"
    /\ ex_status # "returned" => ENABLED NextExtractSteps
    /\ ex_status = "returned" =>
          \A i, j \in DOMAIN tasks :
              tasks[i].key = tasks[j].key =>
                  /\ tasks[i].pc = "finished"
                  /\ tasks[i].errored = tasks[j].errored
                  /\ tasks[i].result_worklogs = tasks[j].result_worklogs

\* C23 witness: the same key was passed twice with the cache enabled, both
\* tasks fetched its metadata and its worklogs, and the call returned both
\* tasks' records
C23_Witness ==
    /\ ex_status = "returned"
    /\ use_cache
    /\ Len(issue_keys) = 2 /\ issue_keys[1] = issue_keys[2]
    /\ \A i \in DOMAIN tasks : tasks[i].calls = 2 /\ ~tasks[i].errored
    /\ Len(all_worklogs) = 2

\* C24: every record extract_worklogs holds or returns, and every record a
\* task has built, carries a key of the list passed in.
C24_NoOrphanRecords ==
    /\ \A j \in 1..Len(all_worklogs) : all_worklogs[j].issue_key \in Range(issue_keys)
    /\ \A i \in DOMAIN tasks :
          \A j \in 1..Len(tasks[i].result_worklogs) :
              tasks[i].result_worklogs[j].issue_key \in Range(issue_keys)

\* C24 witness: records of two keys have been returned
C24_Witness ==
    /\ ex_status = "returned"
    /\ Len(issue_keys) = 2
    /\ \A k \in Range(issue_keys) : \E j \in 1..Len(all_worklogs) : all_worklogs[j].issue_key = k

\* the keys the remote service holds children for
HasChildren(d) == { k \in DOMAIN d.children : d.children[k] # {} }

\* C26: a children search is issued at most once per key and only for the
\* epics among the direct matches; a key found as a child, as a link or as a
\* subtask is not searched for children, whatever the service holds for it;
\* without an epic among the direct matches no children search is issued; and
\* a completed run has searched each of those epics once.
C26_OnlySeedEpicsExpanded ==
    /\ epic_keys \subseteq remote.seed \cap remote.epics
    /\ \A k \in AllKeys :
        /\ n_children[k] <= 1
        /\ n_children[k] = 1 => k \in epic_keys
    /\ status = "done" =>
        /\ epic_keys = remote.seed \cap remote.epics
        /\ \A k \in epic_keys : n_children[k] = 1

\* C26 witness: a completed run whose result holds a child, a linked key and a
\* subtask that have children at the service, none of them searched
C26_Witness ==
    /\ status = "done"
    /\ \E c \in UNION { remote.children[e] : e \in epic_keys } :
          c \in HasChildren(remote) /\ n_children[c] = 0 /\ c \in Range(result.keys)
    /\ \E k \in initial_keys_for_subtasks \ initial_keys :
          k \in HasChildren(remote) /\ n_children[k] = 0
    /\ \E k \in Range(result.keys) \ initial_keys_for_subtasks :
          k \in HasChildren(remote) /\ n_children[k] = 0

----------------------------------------------------------------------------
(* Claims about search_issues *)

\* C27 (as claimed): when search_issues returns, its list holds all the
\* matches the service reported, each once, whatever the total is and however
\* many issues the service puts on a page.
C27_AllItemsFetched ==
    search.pc = "returned" => search.all_issues = [i \in 1..search.total |-> i]

----------------------------------------------------------------------------
(* Claims about the record of a worklog *)

\* the worklog has what a record needs apart from its comment
Convertible(w) == {"id", "author"} \subseteq DOMAIN w

\* the text of the first node of the first block of a document
FirstText(document) == document.dict.content.list[1].dict.content.list[1].dict.text

\* C28: the record of a worklog without a comment has the empty string as
\* its comment, the record of a worklog with a plain string has that string,
\* and the record of a worklog with a document of the expected structure has
\* the text of the first text node of its first block.
C28_CommentNormalizedByVariant ==
    (record.built /\ Convertible(one_worklog)) =>
        /\ ("comment" \notin DOMAIN one_worklog \/ one_worklog.comment = None) =>
              ~record.raised /\ record.record.comment = PyStr("")
        /\ ("comment" \in DOMAIN one_worklog /\ IsStr(one_worklog.comment)) =>
              ~record.raised /\ record.record.comment = one_worklog.comment
        /\ ("comment" \in DOMAIN one_worklog /\ one_worklog.comment \in ExpectedDocuments) =>
              ~record.raised /\ record.record.comment = FirstText(one_worklog.comment)

\* C28 witness: the record of a worklog whose comment is a document of two
\* blocks, the first with two text nodes, has the text of the first node
C28_Witness ==
    /\ record.built /\ ~record.raised
    /\ "comment" \in DOMAIN one_worklog
    /\ one_worklog.comment \in ExpectedDocuments
    /\ Len(one_worklog.comment.dict.content.list) = 2
    /\ record.record.comment = PyStr("first")

\* C29 (as claimed): a worklog whose comment is a document of an unexpected
\* structure is converted, and the comment of its record is the document
\* serialized as text.
C29_UnexpectedStructureSerialized ==
    ( /\ record.built /\ Convertible(one_worklog)
      /\ "comment" \in DOMAIN one_worklog
      /\ one_worklog.comment \in UnexpectedDocuments ) =>
        ~record.raised /\ record.record.comment = Serialized(one_worklog.comment)

\* C30 (as claimed): the time_spent_seconds of a record is the number of
\* seconds of the duration of its worklog, a non-negative integer, whatever
\* the worklog carries as its seconds.
C30_SecondsFromDuration ==
    (record.built /\ ~record.raised) =>
        /\ record.record.time_spent_seconds = PyInt(SecondsOf(one_worklog.timeSpent.duration))
        /\ record.record.time_spent_seconds.int >= 0

----------------------------------------------------------------------------
\* seconds / 3600 in hundredths, a half rounded up
HalfUp(seconds) == (seconds + 18) \div 36

\* seconds / 3600 in hundredths, a half rounded to the even hundredth
HalfEven(seconds) ==
    LET h == seconds \div 36
    IN IF seconds % 36 = 18 THEN (IF h % 2 = 0 THEN h ELSE h + 1) ELSE HalfUp(seconds)

\* C31: the hours exported for a record are its time_spent_seconds divided by
\* 3600 and rounded to two decimals (a half is taken up or to the even
\* hundredth), for every non-negative integer number of seconds.
C31_HoursAreSecondsOver3600Rounded ==
    csvfile # NoFile =>
        \A i \in DOMAIN export_worklogs :
            csvfile.rows[i].time_spent_hours.hundredths
                \in { HalfUp(export_worklogs[i].time_spent_seconds),
                      HalfEven(export_worklogs[i].time_spent_seconds) }

----------------------------------------------------------------------------
\* the report files --format selects
Selected(format) ==
    (IF format \in {"csv", "both", "all"} THEN {"csv"} ELSE {})
      \cup (IF format \in {"html", "both", "all"} THEN {"html"} ELSE {})
      \cup (IF format \in {"excel", "all"} THEN {"xlsx"} ELSE {})

\* C32: a run whose extraction fails for some keys, however many, still
\* writes the selected exports; a run whose collection fails writes none.
C32_ReportDespiteExtractionFailures ==
    /\ main.pc = "done" => output = Selected(main.format)
    /\ main.pc = "raised" => output = {}

\* the calls of the exports --format selects, in the order main makes them
ExportCalls(format) ==
    (IF format \in {"csv", "both", "all"} THEN <<"export_to_csv">> ELSE << >>)
      \o (IF format \in {"html", "both", "all"} THEN <<"export_to_html">> ELSE << >>)
      \o (IF format \in {"excel", "all"} THEN <<"export_to_excel">> ELSE << >>)

\* the calls of a complete run
Workflow(format) ==
    <<"collect_all_related_issues", "extract_worklogs", "generate_summary">>
      \o ExportCalls(format)

IsPrefix(s, t) == Len(s) <= Len(t) /\ s = SubSeq(t, 1, Len(s))

\* C33: main calls collection, extraction, summary and the exports in that
\* order, each once and one after the other; a run that ends has made all of
\* them, and a run whose collection returns no key has made the collection
\* only.
C33_WorkflowInOrder ==
    /\ IsPrefix(main_calls, Workflow(main.format))
    /\ main.pc = "done" => main_calls = Workflow(main.format)
    /\ main.pc = "returned" => main_calls = <<"collect_all_related_issues">>
    /\ main.pc \in {"extract", "summary", "csv", "html", "excel", "done"}
          => main.issue_keys # << >>

C33_Witness ==
    /\ main.pc = "done"
    /\ main.format = "all"
    /\ Len(main_calls) = 6

----------------------------------------------------------------------------
\* the distinct elements of a sequence, in the order of their first occurrence
RECURSIVE Distinct(_)
Distinct(seq) ==
    IF seq = << >> THEN << >>
    ELSE LET front == Distinct(SubSeq(seq, 1, Len(seq) - 1))
             last == seq[Len(seq)]
         IN IF \E i \in DOMAIN front : front[i] = last THEN front ELSE Append(front, last)

\* C34: an extractor starts with an empty jql_queries list, and after any
\* sequence of search_issues calls the list holds each distinct JQL string
\* searched exactly once.
C34_JqlQueriesTracked ==
    extractor # NotConstructed =>
        /\ "jql_queries" \in DOMAIN extractor
        /\ extractor.jql_queries = Distinct(searched)

\* C35: validation makes its requests in the fixed order of the checks; the
\* first request that fails (unreachable, or a status of 400 or more) raises,
\* no request follows it and no extractor comes into being; without a failure
\* all checks are made; with skip_validation no request is made at all.
C35_ValidationStopsAtFirstFailure ==
    LET requests == construction.requests
    IN /\ Len(requests) <= Len(Checks)
       /\ \A i \in DOMAIN requests :
            /\ requests[i].check = Checks[i]
            /\ (requests[i].outcome = Unreachable \/ requests[i].outcome.status_code >= 400)
                 => /\ i = Len(requests)
                    /\ construction.pc = "raised"
                    /\ extractor = NotConstructed
                    /\ ~ENABLED ValidateRequest
       /\ construction.skip_validation => requests = << >>
       /\ (extractor # NotConstructed /\ ~construction.skip_validation)
            => Len(requests) = Len(Checks)
       /\ construction.pc = "raised" => extractor = NotConstructed

C35_Witness ==
    /\ construction.pc = "raised"
    /\ Len(construction.requests) = 3
    /\ construction.requests[3].outcome = Response(404, "error")

----------------------------------------------------------------------------
\* C36: each logical cache key has one file: two calls return the same file
\* name exactly when they were given the same prefix and the same identifier
\* (so the metadata and the worklogs of one issue have different files), and
\* a name is the prefix, "_", a digest of fixed width and ".pkl".
C36_OneFilePerLogicalKey ==
    key_names # << >> =>
        /\ (key_names[1] = key_names[2]) <=> (key_pairs[1] = key_pairs[2])
        /\ \A i \in 1..2 : Len(key_names[i]) = Len(key_pairs[i][1]) + 37

\* C36 witness: the metadata and the worklogs of the same issue
C36_Witness ==
    /\ key_names # << >>
    /\ key_pairs[1][1] = "metadata"
    /\ key_pairs[2][1] = "worklogs"
    /\ key_pairs[1][2] = key_pairs[2][2]
    /\ key_names[1] # key_names[2]

----------------------------------------------------------------------------
\* C37: a task looks up the worklogs of its key, in the cache or remotely,
\* only when it holds the metadata of that key; and once the metadata lookup
\* of a key has failed, no task of that key has looked up, or goes on to look
\* up, its worklogs.
C37_MetadataBeforeWorklogs ==
    [][ \A i \in DOMAIN tasks :
          /\ (tasks[i].pc \in {"worklogs", "worklogs_fetch"} /\ tasks'[i] # tasks[i])
                => tasks[i].metadata \in MetadataOf(tasks[i].key)
          /\ (tasks'[i].errored /\ tasks'[i].metadata = None)
                => \A j \in DOMAIN tasks' :
                      tasks'[j].key = tasks'[i].key
                        => /\ tasks'[j].pc \notin {"worklogs", "worklogs_fetch", "convert"}
                           /\ tasks'[j].worklogs = PyList(<< >>)
                           /\ tasks'[j].calls <= 1
      ]_vars

\* C37 witness: the metadata lookup of one key failed and its task ended
\* after that one call, while the task of another key converts its worklogs
C37_Witness ==
    /\ \E i \in DOMAIN tasks :
          /\ tasks[i].pc = "finished" /\ tasks[i].errored
          /\ tasks[i].metadata = None /\ tasks[i].calls = 1
    /\ \E j \in DOMAIN tasks : tasks[j].pc = "convert" /\ tasks[j].metadata # None

----------------------------------------------------------------------------
\* C38: a read that returns a value leaves the directory as it was, the time
\* of the file included, and the value is at most cache_ttl old; the time of
\* a file is set by a write of that entry only, to the time of the write. So
\* the age of an entry counts from its latest write however often it is read.
C38_HitLeavesStorageUnchanged ==
    [][ /\ (op'.name = "get" /\ op'.ret # None) =>
              /\ files' = files
              /\ op'.key \in DOMAIN files
              /\ now - files[op'.key].mtime <= cache_ttl
        /\ \A k \in DOMAIN files' :
              (k \notin DOMAIN files \/ files'[k].mtime # files[k].mtime) =>
                  /\ op'.name = "save"
                  /\ op'.key = k
                  /\ files'[k].mtime = now
      ]_vars

\* C38 witness: an entry written earlier has been read and returned, and the
\* file still carries the time of its write
C38_Witness ==
    /\ op.name = "get"
    /\ op.ret # None
    /\ op.key \in DOMAIN files
    /\ files[op.key].mtime < now
    /\ cache_ttl > 0

----------------------------------------------------------------------------
\* the step is a call of get_worklogs or get_issue_metadata whose remote
\* fetch fails
FetchFails ==
    /\ op'.name \in {"get_worklogs", "get_issue_metadata"}
    /\ op'.fetched = 1
    /\ op'.raised

\* C39 as stated: a call whose remote fetch fails leaves the cache unchanged.
C39_FailedFetchLeavesCacheUnchanged ==
    [][ FetchFails => files' = files ]_vars

\* C39 as amended: a call whose remote fetch fails writes no entry and alters
\* none; all it may do to the cache is delete the expired entry of its key,
\* in the read before the fetch. After it a read of that entry is a miss (when
\* the read before the fetch went without a failure of its own), so the next
\* call for the key goes to the remote service again.
C39_FailedFetchWritesNothing ==
    [][ FetchFails =>
          /\ \A k \in DOMAIN files' : k \in DOMAIN files /\ files'[k] = files[k]
          /\ \A k \in DOMAIN files \ DOMAIN files' :
                k = op'.key /\ now - files[k].mtime > cache_ttl
          /\ op'.saves = 0
          /\ op'.rfault = "none" =>
                ~IsHit(GetFromCache(use_cache, cache_ttl, files', now, op'.key, "none").ret)
      ]_vars

\* C39 witness: a fetch has failed while the cache holds the other entry of
\* the issue, and the entry of the failed call is not there
C39_Witness ==
    /\ op.name \in {"get_worklogs", "get_issue_metadata"}
    /\ op.fetched = 1
    /\ op.raised
    /\ DOMAIN files # {}
    /\ op.key \notin DOMAIN files

----------------------------------------------------------------------------
\* C40: when a read has found the entry expired while another thread writes
\* a new value for it, the new value is in storage once both have returned
\* (as long as the new value has not itself grown older than cache_ttl).
C40_EvictionKeepsFreshValue ==
    ( /\ entry_threads.getter.pc = "returned"
      /\ entry_threads.saver.pc = "returned"
      /\ use_cache
      /\ entry_threads.getter.found_expired
      /\ now - entry_threads.saver.written_at <= cache_ttl )
    => /\ Exists(files, EvictKey)
       /\ files[EvictKey].data = entry_threads.saver.data

====
